---- MODULE Spec2Model ----
(***************************************************************************)
(* Storage and sync layer of the Mindwtr desktop shell                     *)
(* (apps/desktop/src-tauri/src/lib.rs): the SQLite store with its FTS      *)
(* index, the data.json mirror, and the sync-folder file protocol.         *)
(*                                                                         *)
(* JSON text is modelled at token granularity: a file or a TEXT column     *)
(* holding JSON is a sequence of tokens, serde_json's serializer and       *)
(* parser are operators over token sequences.                              *)
(***************************************************************************)
EXTENDS Integers, Sequences, FiniteSets, TLC

(***************************************************************************)
(* JSON values (serde_json::Value)                                         *)
(***************************************************************************)
JStr(s) == [k |-> "str", s |-> s]
JNum(n) == [k |-> "num", n |-> n]
JBool(b) == [k |-> "bool", b |-> b]
JNull == [k |-> "null"]
JArr(a) == [k |-> "arr", a |-> a]
JObj(o) == [k |-> "obj", o |-> o]

EmptyMap == [x \in {} |-> JNull]

\* Option<T>
None == [k |-> "none"]
Some(x) == [k |-> "some", x |-> x]

\* Value::get(key): Some(member) for an object that has the key
get(v, key) ==
    IF v.k = "obj" /\ key \in DOMAIN v.o THEN Some(v.o[key]) ELSE None

\* Option<&Value>::and_then(Value::as_str) and its siblings
as_str(opt) == IF opt.k = "some" /\ opt.x.k = "str" THEN Some(opt.x.s) ELSE None
as_i64(opt) == IF opt.k = "some" /\ opt.x.k = "num" THEN Some(opt.x.n) ELSE None
as_bool(opt) == IF opt.k = "some" /\ opt.x.k = "bool" THEN Some(opt.x.b) ELSE None
as_array(opt) == IF opt.k = "some" /\ opt.x.k = "arr" THEN Some(opt.x.a) ELSE None
as_object(opt) == IF opt.k = "some" /\ opt.x.k = "obj" THEN Some(opt.x.o) ELSE None
unwrap_or(opt, d) == IF opt.k = "some" THEN opt.x ELSE d

(***************************************************************************)
(* JSON text: tokens, serializer, parser                                   *)
(***************************************************************************)
Tk(t) == [t |-> t]
TkStr(s) == [t |-> "str", s |-> s]
TkNum(n) == [t |-> "num", n |-> n]

\* serde_json's Map is a BTreeMap: members are written in key order.
KeyOrder ==
    << "areas", "checklist", "color", "contexts", "data_file_path", "deletedAt",
       "description", "id", "isFocusedToday", "name", "order", "orderNum", "projectId",
       "projects", "sections", "settings", "status", "sync_path", "tagIds", "tags",
       "tasks", "theme", "title" >>

\* F applied to the value of x, which is computed once
With(x, F(_)) == CHOOSE y \in {F(v) : v \in {x}} : TRUE

\* parts[i] .. parts[Len], with sep between them
RECURSIVE JoinFrom(_, _, _)
JoinFrom(parts, i, sep) ==
    IF i > Len(parts) THEN << >>
    ELSE IF i = Len(parts) THEN parts[i]
    ELSE parts[i] \o sep \o JoinFrom(parts, i + 1, sep)

JoinSeqs(parts, sep) == With(parts, LAMBDA ps : JoinFrom(ps, 1, sep))

\* serde_json::to_string (pretty = FALSE) and to_string_pretty (pretty = TRUE):
\* the pretty form differs by the whitespace after an opening bracket, after
\* a comma, after a colon and before a closing bracket of a non-empty value.
RECURSIVE Serialize(_, _)
Serialize(v, pretty) ==
    LET ws == IF pretty THEN << Tk("ws") >> ELSE << >>
    IN  CASE v.k = "str" -> << TkStr(v.s) >>
          [] v.k = "num" -> << TkNum(v.n) >>
          [] v.k = "bool" -> << Tk(IF v.b THEN "true" ELSE "false") >>
          [] v.k = "null" -> << Tk("null") >>
          [] v.k = "arr" ->
                IF Len(v.a) = 0 THEN << Tk("lbrack"), Tk("rbrack") >>
                ELSE << Tk("lbrack") >> \o ws
                     \o JoinSeqs([i \in 1..Len(v.a) |-> Serialize(v.a[i], pretty)],
                                 << Tk("comma") >> \o ws)
                     \o ws \o << Tk("rbrack") >>
          [] v.k = "obj" ->
                With(SelectSeq(KeyOrder, LAMBDA key : key \in DOMAIN v.o), LAMBDA keys :
                    IF Len(keys) = 0 THEN << Tk("lbrace"), Tk("rbrace") >>
                    ELSE << Tk("lbrace") >> \o ws
                         \o JoinSeqs([i \in 1..Len(keys) |->
                                        << TkStr(keys[i]), Tk("colon") >> \o ws
                                        \o Serialize(v.o[keys[i]], pretty)],
                                     << Tk("comma") >> \o ws)
                         \o ws \o << Tk("rbrace") >>)

to_string(v) == With(v, LAMBDA x : Serialize(x, FALSE))
to_string_pretty(v) == With(v, LAMBDA x : Serialize(x, TRUE))

ParseFail == [ok |-> FALSE]
ParseOk(v, i) == [ok |-> TRUE, v |-> v, i |-> i]

\* index of the first non-whitespace token at or after i (Len + 1 when none)
SkipWs(toks, i) ==
    With({j \in i..Len(toks) : toks[j].t # "ws"}, LAMBDA S :
        IF S = {} THEN Len(toks) + 1
        ELSE CHOOSE j \in S : \A j2 \in S : j <= j2)

\* serde_json's recursive-descent parser: one value starting at token i
RECURSIVE ParseValue(_, _), ParseElems(_, _, _), ParseMembers(_, _, _)
ParseValue(toks, i0) ==
    With(SkipWs(toks, i0), LAMBDA i :
        IF i > Len(toks) THEN ParseFail
        ELSE CASE toks[i].t = "str" -> ParseOk(JStr(toks[i].s), i + 1)
               [] toks[i].t = "num" -> ParseOk(JNum(toks[i].n), i + 1)
               [] toks[i].t = "true" -> ParseOk(JBool(TRUE), i + 1)
               [] toks[i].t = "false" -> ParseOk(JBool(FALSE), i + 1)
               [] toks[i].t = "null" -> ParseOk(JNull, i + 1)
               [] toks[i].t = "lbrack" ->
                    With(SkipWs(toks, i + 1), LAMBDA j :
                        IF j <= Len(toks) /\ toks[j].t = "rbrack"
                        THEN ParseOk(JArr(<< >>), j + 1)
                        ELSE ParseElems(toks, i + 1, << >>))
               [] toks[i].t = "lbrace" ->
                    With(SkipWs(toks, i + 1), LAMBDA j :
                        IF j <= Len(toks) /\ toks[j].t = "rbrace"
                        THEN ParseOk(JObj(EmptyMap), j + 1)
                        ELSE ParseMembers(toks, i + 1, EmptyMap))
               [] OTHER -> ParseFail)

ParseElems(toks, i, acc) ==
    With(ParseValue(toks, i), LAMBDA r :
        IF ~r.ok THEN ParseFail
        ELSE With(SkipWs(toks, r.i), LAMBDA j :
                 IF j > Len(toks) THEN ParseFail
                 ELSE IF toks[j].t = "comma"
                      THEN With(Append(acc, r.v), LAMBDA acc2 :
                                ParseElems(toks, j + 1, acc2))
                 ELSE IF toks[j].t = "rbrack"
                      THEN ParseOk(JArr(Append(acc, r.v)), j + 1)
                 ELSE ParseFail))

ParseMembers(toks, i, acc) ==
    With(SkipWs(toks, i), LAMBDA j :
        IF j > Len(toks) \/ toks[j].t # "str" THEN ParseFail
        ELSE With(SkipWs(toks, j + 1), LAMBDA c :
            IF c > Len(toks) \/ toks[c].t # "colon" THEN ParseFail
            ELSE With(ParseValue(toks, c + 1), LAMBDA r :
                IF ~r.ok THEN ParseFail
                ELSE With([x \in DOMAIN acc \cup {toks[j].s} |->
                              IF x = toks[j].s THEN r.v ELSE acc[x]], LAMBDA acc2 :
                     With(SkipWs(toks, r.i), LAMBDA e :
                         IF e > Len(toks) THEN ParseFail
                         ELSE IF toks[e].t = "comma"
                              THEN ParseMembers(toks, e + 1, acc2)
                         ELSE IF toks[e].t = "rbrace"
                              THEN ParseOk(JObj(acc2), e + 1)
                         ELSE ParseFail)))))

\* serde_json::from_str: one value, then nothing but whitespace
from_str(text) ==
    With(text, LAMBDA toks :
        With(ParseValue(toks, 1), LAMBDA r :
            IF r.ok /\ SkipWs(toks, r.i) > Len(toks) THEN Some(r.v) ELSE None))

\* Deserializer::from_str + Value::deserialize: the first value, rest ignored
deserialize_first(text) ==
    With(text, LAMBDA toks :
        With(ParseValue(toks, 1), LAMBDA r : IF r.ok THEN Some(r.v) ELSE None))

(***************************************************************************)
(* Mirror / sync file reading                                              *)
(***************************************************************************)
RECURSIVE StripLeading(_, _)
StripLeading(toks, t) ==
    IF Len(toks) > 0 /\ toks[1].t = t THEN StripLeading(Tail(toks), t) ELSE toks

RECURSIVE StripTrailing(_, _)
StripTrailing(toks, t) ==
    IF Len(toks) > 0 /\ toks[Len(toks)].t = t
    THEN StripTrailing(SubSeq(toks, 1, Len(toks) - 1), t)
    ELSE toks

\* trim_start_matches(BOM), trim_end(), then pop every trailing NUL
sanitize_json_text(raw) ==
    StripTrailing(StripTrailing(StripLeading(raw, "bom"), "ws"), "nul")

\* index of the first `{` or `[`, 1 when there is none
FirstOpen(text) ==
    With({i \in 1..Len(text) : text[i].t \in {"lbrace", "lbrack"}}, LAMBDA opens :
        IF opens = {} THEN 1 ELSE CHOOSE i \in opens : \A j \in opens : i <= j)

parse_json_relaxed(raw) ==
    With(sanitize_json_text(raw), LAMBDA sanitized :
        IF Len(sanitized) = 0 THEN from_str(<< Tk("lbrace"), Tk("rbrace") >>)
        ELSE With(from_str(sanitized), LAMBDA strict :
                 IF strict.k = "some" THEN strict
                 ELSE deserialize_first(
                          SubSeq(sanitized, FirstOpen(sanitized), Len(sanitized)))))

\* map.insert(key, value)
MapInsert(o, key, v) == [x \in DOMAIN o \cup {key} |-> IF x = key THEN v ELSE o[x]]

DefaultSyncValue ==
    JObj([tasks |-> JArr(<< >>), projects |-> JArr(<< >>),
          areas |-> JArr(<< >>), settings |-> JObj(EmptyMap)])

\* (a normalization that adds the keys that are missing and keeps the others)
normalize_missing_only(value) ==
    IF value.k = "obj"
    THEN JObj([key \in DOMAIN value.o \cup {"tasks", "projects", "areas", "settings"} |->
                 IF key \in DOMAIN value.o THEN value.o[key]
                 ELSE IF key = "settings" THEN JObj(EmptyMap) ELSE JArr(<< >>)])
    ELSE DefaultSyncValue

\* `if !matches!(map.get(key), Some(Value::Array(_))) { map.insert(key, []) }`
\* for tasks, projects and areas, and the same with {} for settings
normalize_sync_value(value) ==
    IF value.k = "obj"
    THEN JObj([key \in DOMAIN value.o \cup {"tasks", "projects", "areas", "settings"} |->
                 IF key \in {"tasks", "projects", "areas"}
                 THEN IF as_array(get(value, key)).k = "some" THEN value.o[key]
                      ELSE JArr(<< >>)
                 ELSE IF key = "settings"
                 THEN IF as_object(get(value, key)).k = "some" THEN value.o[key]
                      ELSE JObj(EmptyMap)
                 ELSE value.o[key]])
    ELSE DefaultSyncValue

\* Result<T, String>
Err(e) == [ok |-> FALSE, e |-> e]
Ok(v) == [ok |-> TRUE, v |-> v]

\* One attempt of read_json_with_retries on the content seen at that moment
\* (None: fs::read_to_string failed).
read_attempt(content) ==
    IF content.k = "none" THEN Err("io")
    ELSE With(parse_json_relaxed(content.x), LAMBDA p :
             IF p.k = "some" THEN Ok(normalize_sync_value(p.x)) ELSE Err("parse"))

\* (a loop that waits after each failed attempt, the last one included)
sleeps_after_every(attempt, attempts) == TRUE

\* `if attempt + 1 < attempts { std::thread::sleep(..) }`
sleeps_after(attempt, attempts) == attempt + 1 < attempts

\* read_json_with_retries when the file does not change between the attempts:
\* every attempt sees the same content, so the loop returns what the first
\* attempt returns, or the last error after `attempts` tries.
read_json_with_retries(content, attempts) ==
    IF attempts = 0 THEN Err("Failed to read sync file")
    ELSE With(content, LAMBDA c : read_attempt(c))

(***************************************************************************)
(* Entity codec: document <-> rows                                         *)
(***************************************************************************)
SqlNull == [k |-> "null"]
SqlText(s) == [k |-> "text", s |-> s]
SqlInt(n) == [k |-> "int", n |-> n]

\* Option<String> / Option<i64> bound as a parameter
OptText(opt) == IF opt.k = "some" THEN SqlText(opt.x) ELSE SqlNull
OptInt(opt) == IF opt.k = "some" THEN SqlInt(opt.x) ELSE SqlNull

json_str(opt) == IF opt.k = "some" THEN Some(to_string(opt.x)) ELSE None
json_str_or_default(opt, default) == unwrap_or(json_str(opt), default)

parse_json_value(raw) ==
    IF raw.k = "text"
    THEN unwrap_or(from_str(raw.s), JNull)
    ELSE JNull

parse_json_array(raw) ==
    With(parse_json_value(raw), LAMBDA v : IF v.k = "arr" THEN v ELSE JArr(<< >>))

EmptyArrayText == << Tk("lbrack"), Tk("rbrack") >>
EmptyObjectText == << Tk("lbrace"), Tk("rbrace") >>
DefaultProjectColor == "#6B7280"

\* The columns kept are one or more of each conversion the statement applies:
\* text with a default (id, title, status), nullable text (description,
\* projectId, deletedAt), nullable integer (orderNum), JSON text with a
\* default (tags, contexts), nullable JSON text (checklist), boolean as integer
\* (isFocusedToday).
task_params(task) ==
    [ id |-> SqlText(unwrap_or(as_str(get(task, "id")), "")),
      title |-> SqlText(unwrap_or(as_str(get(task, "title")), "")),
      status |-> SqlText(unwrap_or(as_str(get(task, "status")), "inbox")),
      tags |-> SqlText(json_str_or_default(get(task, "tags"), EmptyArrayText)),
      contexts |-> SqlText(json_str_or_default(get(task, "contexts"), EmptyArrayText)),
      checklist |-> OptText(json_str(get(task, "checklist"))),
      description |-> OptText(as_str(get(task, "description"))),
      projectId |-> OptText(as_str(get(task, "projectId"))),
      orderNum |-> OptInt(as_i64(get(task, "orderNum"))),
      isFocusedToday |->
          SqlInt(IF unwrap_or(as_bool(get(task, "isFocusedToday")), FALSE) THEN 1 ELSE 0),
      deletedAt |-> OptText(as_str(get(task, "deletedAt"))) ]

project_params(project) ==
    [ id |-> SqlText(unwrap_or(as_str(get(project, "id")), "")),
      title |-> SqlText(unwrap_or(as_str(get(project, "title")), "")),
      status |-> SqlText(unwrap_or(as_str(get(project, "status")), "active")),
      color |-> SqlText(unwrap_or(as_str(get(project, "color")), DefaultProjectColor)),
      orderNum |-> OptInt(as_i64(get(project, "order"))),
      tagIds |-> SqlText(json_str_or_default(get(project, "tagIds"), EmptyArrayText)),
      deletedAt |-> OptText(as_str(get(project, "deletedAt"))) ]

area_params(area) ==
    [ id |-> SqlText(unwrap_or(as_str(get(area, "id")), "")),
      name |-> SqlText(unwrap_or(as_str(get(area, "name")), "")),
      color |-> OptText(as_str(get(area, "color"))),
      orderNum |-> SqlInt(unwrap_or(as_i64(get(area, "order")), 0)) ]

section_params(section) ==
    [ id |-> SqlText(unwrap_or(as_str(get(section, "id")), "")),
      projectId |-> SqlText(unwrap_or(as_str(get(section, "projectId")), "")),
      title |-> SqlText(unwrap_or(as_str(get(section, "title")), "")),
      orderNum |-> OptInt(as_i64(get(section, "order"))) ]

settings_params(data) ==
    [ id |-> SqlInt(1),
      data |-> SqlText(unwrap_or(json_str(get(data, "settings")), EmptyObjectText)) ]

coalesce(col, d) == IF col.k = "null" THEN d ELSE col.s

\* a NULL column comes back as an empty string
PutTextAlways(key, col) == key :> JStr(coalesce(col, ""))
\* `if let Ok(Some(v)) = row.get(col) { map.insert(key, ...) }`: the member
\* when the column is not NULL, else none
PutText(key, col) == IF col.k = "text" THEN key :> JStr(col.s) ELSE EmptyMap
PutInt(key, col) == IF col.k = "int" THEN key :> JNum(col.n) ELSE EmptyMap
PutJson(key, col) ==
    With(parse_json_value(col), LAMBDA v : IF v.k # "null" THEN key :> v ELSE EmptyMap)
PutFlag(key, col) ==
    IF col.k = "int" /\ col.n # 0 THEN key :> JBool(TRUE) ELSE EmptyMap

row_to_task_value(row) ==
    JObj([id |-> JStr(row.id.s), title |-> JStr(row.title.s),
          status |-> JStr(row.status.s),
          tags |-> parse_json_array(row.tags),
          contexts |-> parse_json_array(row.contexts)]
         @@ PutJson("checklist", row.checklist)
         @@ PutText("description", row.description)
         @@ PutText("projectId", row.projectId)
         @@ PutInt("orderNum", row.orderNum)
         @@ PutFlag("isFocusedToday", row.isFocusedToday)
         @@ PutText("deletedAt", row.deletedAt))

row_to_project_value(row) ==
    JObj([id |-> JStr(row.id.s), title |-> JStr(row.title.s),
          status |-> JStr(row.status.s), color |-> JStr(row.color.s),
          tagIds |-> parse_json_array(row.tagIds)]
         @@ PutInt("order", row.orderNum)
         @@ PutText("deletedAt", row.deletedAt))

row_to_section_value(row) ==
    JObj([id |-> JStr(row.id.s), projectId |-> JStr(row.projectId.s),
          title |-> JStr(row.title.s)]
         @@ PutInt("order", row.orderNum))

row_to_area_value(row) ==
    JObj([id |-> JStr(row.id.s), name |-> JStr(row.name.s),
          order |-> JNum(row.orderNum.n)]
         @@ PutText("color", row.color))

(***************************************************************************)
(* Relational store: tables, triggers, FTS index                           *)
(***************************************************************************)
AllTriggers == {"tasks_ai", "tasks_ad", "tasks_au", "projects_ai", "projects_ad", "projects_au"}
RewrittenTriggers == {"tasks_ad", "tasks_au", "projects_ad", "projects_au"}

\* CREATE TABLE IF NOT EXISTS ...: the tables of SQLITE_SCHEMA and their columns
TableNames == {"tasks", "projects", "areas", "sections", "settings", "schema_migrations"}
SchemaColumns(table) ==
    CASE table = "tasks" ->
           {"id", "title", "status", "priority", "taskMode", "startTime", "dueDate",
            "recurrence", "pushCount", "tags", "contexts", "checklist", "description",
            "attachments", "location", "projectId", "sectionId", "areaId", "orderNum",
            "isFocusedToday", "timeEstimate", "reviewAt", "completedAt", "rev", "revBy",
            "createdAt", "updatedAt", "deletedAt", "purgedAt"}
      [] table = "projects" ->
           {"id", "title", "status", "color", "orderNum", "tagIds", "isSequential",
            "isFocused", "supportNotes", "attachments", "reviewAt", "areaId", "areaTitle",
            "rev", "revBy", "createdAt", "updatedAt", "deletedAt"}
      [] table = "areas" ->
           {"id", "name", "color", "icon", "orderNum", "deletedAt", "rev", "revBy",
            "createdAt", "updatedAt"}
      [] table = "sections" ->
           {"id", "projectId", "title", "description", "orderNum", "isCollapsed", "rev",
            "revBy", "createdAt", "updatedAt", "deletedAt"}
      [] table = "settings" -> {"id", "data"}
      [] OTHER -> {"version"}

\* CREATE INDEX IF NOT EXISTS ... of SQLITE_SCHEMA
SchemaIndexes ==
    {"idx_tasks_status", "idx_tasks_project_id", "idx_tasks_updated_at",
     "idx_tasks_deleted_at", "idx_tasks_due_date", "idx_tasks_start_time",
     "idx_tasks_review_at", "idx_tasks_created_at", "idx_tasks_status_deleted_at",
     "idx_tasks_project_status_deleted_at"}

\* A database file that does not exist yet, or exists without any object
\* (a table without columns is a table that does not exist).
EmptyDb ==
    [ tasks |-> << >>, projects |-> << >>, areas |-> << >>, sections |-> << >>,
      settings |-> << >>, tasks_fts |-> << >>, projects_fts |-> << >>,
      schema_migrations |-> {}, triggers |-> {},
      columns |-> [t \in TableNames |-> {}], indexes |-> {} ]

\* The five user tables
Tables(db) ==
    [ tasks |-> db.tasks, projects |-> db.projects, areas |-> db.areas,
      sections |-> db.sections, settings |-> db.settings ]

\* SQL three-valued logic: "T", "F", or "N" (NULL)
SqlEq(a, b) == IF a.k = "null" \/ b.k = "null" THEN "N" ELSE IF a = b THEN "T" ELSE "F"
SqlNotIn(x, S) ==
    IF S = {} THEN "T"
    ELSE IF x.k = "null" THEN "N"
    ELSE IF x \in S THEN "F"
    ELSE IF SqlNull \in S THEN "N"
    ELSE "T"

ColumnSet(rows) == {rows[i].id : i \in 1..Len(rows)}

\* fts5(..., content=''): a contentless table keeps the index entries of a row
\* but none of its column values; reading any column but rowid gives NULL.
ContentlessColumn(v) == SqlNull

\* INSERT INTO x_fts (id, title, ...): a new row whose rowid is its position;
\* `terms` are the indexed texts.
FtsInsert(fts, id, terms) ==
    Append(fts, [id |-> ContentlessColumn(id), terms |-> terms])

\* INSERT INTO x_fts (x_fts, id, ...) VALUES ('delete', ...): removes the
\* entry whose rowid is given. The triggers give no rowid, so the command
\* addresses rowid 0 (the integer value of NULL), which no row has.
FtsSpecialDelete(fts, rowid) ==
    IF rowid \in 1..Len(fts)
    THEN [i \in 1..(Len(fts) - 1) |-> IF i < rowid THEN fts[i] ELSE fts[i + 1]]
    ELSE fts
TriggerDeleteRowid == 0

task_terms(row) == << row.title.s, coalesce(row.description, "") >>
project_terms(row) == << row.title.s >>

FtsTableOf(table) == IF table = "tasks" THEN "tasks_fts" ELSE "projects_fts"
TermsOf(table, row) == IF table = "tasks" THEN task_terms(row) ELSE project_terms(row)

\* DELETE FROM <table>: every row goes, the AFTER DELETE trigger fires per row
RECURSIVE FireDeletes(_, _)
FireDeletes(fts, n) ==
    IF n = 0 THEN fts ELSE FireDeletes(FtsSpecialDelete(fts, TriggerDeleteRowid), n - 1)

ExecDelete(db, table) ==
    IF table \in {"tasks", "projects"} /\ (table \o "_ad") \in db.triggers
    THEN [db EXCEPT ![table] = << >>,
                    ![FtsTableOf(table)] = FireDeletes(@, Len(db[table]))]
    ELSE [db EXCEPT ![table] = << >>]

\* (a table without a key: every row is taken)
ExecInsertAlways(db, table, row) ==
    IF table \in {"tasks", "projects"} /\ (table \o "_ai") \in db.triggers
    THEN Ok([db EXCEPT ![table] = Append(@, row),
                       ![FtsTableOf(table)] = FtsInsert(@, row.id, TermsOf(table, row))])
    ELSE Ok([db EXCEPT ![table] = Append(@, row)])

\* INSERT INTO <table>: fails on a primary key that is already there
\* (id TEXT PRIMARY KEY; settings: id INTEGER PRIMARY KEY CHECK (id = 1));
\* the AFTER INSERT trigger adds the index entry.
ExecInsert(db, table, row) ==
    IF row.id \in ColumnSet(db[table]) THEN Err("UNIQUE constraint failed")
    ELSE IF table \in {"tasks", "projects"} /\ (table \o "_ai") \in db.triggers
    THEN Ok([db EXCEPT ![table] = Append(@, row),
                       ![FtsTableOf(table)] = FtsInsert(@, row.id, TermsOf(table, row))])
    ELSE Ok([db EXCEPT ![table] = Append(@, row)])

Exec(db, stmt) ==
    IF stmt.op = "delete" THEN Ok(ExecDelete(db, stmt.table))
    ELSE ExecInsert(db, stmt.table, stmt.row)

ArrayOf(data, key) == unwrap_or(as_array(get(data, key)), << >>)

InsertsOf(data, key, table, Params(_)) ==
    With(ArrayOf(data, key), LAMBDA arr :
        [i \in 1..Len(arr) |-> [op |-> "insert", table |-> table, row |-> Params(arr[i])]])

\* (a replacement that stores no settings row)
migrate_statements_without_settings(data) ==
    << [op |-> "delete", table |-> "tasks"], [op |-> "delete", table |-> "projects"],
       [op |-> "delete", table |-> "areas"], [op |-> "delete", table |-> "sections"],
       [op |-> "delete", table |-> "settings"] >>
    \o InsertsOf(data, "tasks", "tasks", task_params)
    \o InsertsOf(data, "projects", "projects", project_params)
    \o InsertsOf(data, "areas", "areas", area_params)
    \o InsertsOf(data, "sections", "sections", section_params)

\* The statements of migrate_json_to_sqlite, in order; COMMIT follows them.
migrate_statements(data) ==
    << [op |-> "delete", table |-> "tasks"], [op |-> "delete", table |-> "projects"],
       [op |-> "delete", table |-> "areas"], [op |-> "delete", table |-> "sections"],
       [op |-> "delete", table |-> "settings"] >>
    \o InsertsOf(data, "tasks", "tasks", task_params)
    \o InsertsOf(data, "projects", "projects", project_params)
    \o InsertsOf(data, "areas", "areas", area_params)
    \o InsertsOf(data, "sections", "sections", section_params)
    \o << [op |-> "insert", table |-> "settings", row |-> settings_params(data)] >>

\* Runs the statements on the transaction's working copy; statement number
\* failAt (the COMMIT when failAt = Len + 1) fails with an engine or I/O error.
RECURSIVE RunStatements(_, _, _, _)
RunStatements(work, stmts, i, failAt) ==
    IF i = failAt THEN [ok |-> FALSE, db |-> work]
    ELSE IF i > Len(stmts) THEN [ok |-> TRUE, db |-> work]
    ELSE With(Exec(work, stmts[i]), LAMBDA r :
             IF r.ok THEN RunStatements(r.v, stmts, i + 1, failAt)
             ELSE [ok |-> FALSE, db |-> work])

\* the working copy survives the failed call
RollbackKeepsWork(before, work) == work
\* A Transaction dropped without commit() rolls back (DropBehavior::Rollback).
Rollback(before, work) == before

\* failAt = 0: no injected failure
migrate_json_to_sqlite(db, data, failAt) ==
    With(migrate_statements(data), LAMBDA stmts :
        With(RunStatements(db, stmts, 1, failAt), LAMBDA r :
            IF r.ok THEN [ok |-> TRUE, db |-> r.db]
            ELSE [ok |-> FALSE, db |-> Rollback(db, r.db)]))

SettingsRow(db) == IF Len(db.settings) > 0 THEN db.settings[1].data ELSE SqlNull

read_sqlite_data(db) ==
    LET settings_val ==
            unwrap_or(as_object(Some(parse_json_value(SettingsRow(db)))), EmptyMap)
    IN  JObj([ tasks |-> JArr([i \in 1..Len(db.tasks) |-> row_to_task_value(db.tasks[i])]),
               projects |-> JArr([i \in 1..Len(db.projects) |->
                                    row_to_project_value(db.projects[i])]),
               sections |-> JArr([i \in 1..Len(db.sections) |->
                                    row_to_section_value(db.sections[i])]),
               areas |-> JArr([i \in 1..Len(db.areas) |-> row_to_area_value(db.areas[i])]),
               settings |-> JObj(settings_val) ])

\* (a store that always counts as holding data)
sqlite_never_empty(db) == TRUE

\* (a store counts as empty when it holds no task, project or area)
sqlite_has_any_entity(db) ==
    Len(db.tasks) > 0 \/ Len(db.projects) > 0 \/ Len(db.areas) > 0

sqlite_has_any_data(db) ==
    Len(db.tasks) > 0 \/ Len(db.projects) > 0 \/ Len(db.areas) > 0 \/ Len(db.settings) > 0

\* COUNT(*) ... WHERE id NOT IN (SELECT id FROM other)
CountNotIn(rows, other) ==
    Cardinality({i \in 1..Len(rows) : SqlNotIn(rows[i].id, ColumnSet(other)) = "T"})

FtsRebuild(db, table) ==
    [db EXCEPT ![FtsTableOf(table)] =
        [i \in 1..Len(db[table]) |->
            [id |-> ContentlessColumn(db[table][i].id),
             terms |-> TermsOf(table, db[table][i])]]]

FtsNeedsRebuild(db, table, force_rebuild) ==
    \/ force_rebuild
    \/ Len(db[FtsTableOf(table)]) = 0
    \/ CountNotIn(db[table], db[FtsTableOf(table)]) > 0
    \/ CountNotIn(db[FtsTableOf(table)], db[table]) > 0

\* (an open that leaves the index as it finds it)
ensure_fts_populated_skipped(db, force_rebuild) == db

\* (populating the index on every open, on top of the entries it holds)
ensure_fts_populated_appending(db, force_rebuild) ==
    [db EXCEPT !.tasks_fts = @ \o FtsRebuild(db, "tasks").tasks_fts,
               !.projects_fts = @ \o FtsRebuild(db, "projects").projects_fts]

ensure_fts_populated(db, force_rebuild) ==
    With(IF FtsNeedsRebuild(db, "tasks", force_rebuild)
         THEN FtsRebuild(db, "tasks") ELSE db, LAMBDA d1 :
        IF FtsNeedsRebuild(d1, "projects", force_rebuild)
        THEN FtsRebuild(d1, "projects") ELSE d1)

\* (a check that never finds the ledger row)
has_v2_never(db) == FALSE

\* SELECT version FROM schema_migrations WHERE version = 2 LIMIT 1
has_v2(db) == 2 \in db.schema_migrations

\* the triggers that ensure_fts_triggers rewrites, in the order of its statements
RewriteOrder == << "tasks_ad", "tasks_au", "projects_ad", "projects_au" >>
\* DROP TRIGGER IF EXISTS name
drop_trigger(db, name) == [db EXCEPT !.triggers = @ \ {name}]
\* CREATE TRIGGER name ...: fails when the trigger is there
create_trigger(db, name) ==
    IF name \in db.triggers THEN Err("trigger already exists")
    ELSE Ok([db EXCEPT !.triggers = @ \cup {name}])
\* INSERT OR IGNORE INTO schema_migrations (version) VALUES (version)
record_version(db, version) == [db EXCEPT !.schema_migrations = @ \cup {version}]

ensure_fts_triggers(db) ==
    IF has_v2(db) THEN db
    ELSE [db EXCEPT !.triggers = (@ \ RewrittenTriggers) \cup RewrittenTriggers,
                    !.schema_migrations = @ \cup {2}]

\* execute_batch(SQLITE_SCHEMA): CREATE ... IF NOT EXISTS, INSERT OR IGNORE
apply_schema(db) ==
    [db EXCEPT !.schema_migrations = @ \cup {1}, !.triggers = @ \cup AllTriggers,
               !.columns = [t \in TableNames |->
                               IF @[t] = {} THEN SchemaColumns(t) ELSE @[t]],
               !.indexes = @ \cup SchemaIndexes]

\* PRAGMA table_info(table) lists the column
has_column(db, table, column) == column \in db.columns[table]

\* ALTER TABLE t ADD COLUMN c: the rows that are there read NULL in it
AddColumn(db, table, column) ==
    [db EXCEPT !.columns[table] = @ \cup {column},
               ![table] = [i \in 1..Len(@) |->
                              IF column \in DOMAIN @[i]
                              THEN [@[i] EXCEPT ![column] = SqlNull] ELSE @[i]]]

ensure_column(db, table, column) ==
    IF has_column(db, table, column) THEN db ELSE AddColumn(db, table, column)

ensure_tasks_purged_at_column(db) == ensure_column(db, "tasks", "purgedAt")
ensure_tasks_order_column(db) == ensure_column(db, "tasks", "orderNum")
ensure_tasks_area_column(db) ==
    [ensure_column(db, "tasks", "areaId") EXCEPT !.indexes = @ \cup {"idx_tasks_area_id"}]
ensure_tasks_section_column(db) ==
    [ensure_column(db, "tasks", "sectionId") EXCEPT
        !.indexes = @ \cup {"idx_tasks_section_id"}]
ensure_projects_order_column(db) == ensure_column(db, "projects", "orderNum")
ensure_projects_area_order_index(db) ==
    IF has_column(db, "projects", "orderNum")
    THEN [db EXCEPT !.indexes = @ \cup {"idx_projects_area_order"}]
    ELSE db

RevisionColumns ==
    << << "tasks", "rev" >>, << "tasks", "revBy" >>, << "projects", "rev" >>,
       << "projects", "revBy" >>, << "sections", "rev" >>, << "sections", "revBy" >>,
       << "areas", "deletedAt" >>, << "areas", "rev" >>, << "areas", "revBy" >> >>

RECURSIVE ensure_columns(_, _)
ensure_columns(db, cols) ==
    IF Len(cols) = 0 THEN db
    ELSE With(ensure_column(db, Head(cols)[1], Head(cols)[2]), LAMBDA d :
             ensure_columns(d, Tail(cols)))

ensure_sync_revision_columns(db) == ensure_columns(db, RevisionColumns)

\* open_sqlite up to ensure_fts_triggers: the schema batch and the columns
open_columns(db) ==
    With(apply_schema(db), LAMBDA c0 :
    With(ensure_tasks_purged_at_column(c0), LAMBDA c1 :
    With(ensure_tasks_order_column(c1), LAMBDA c2 :
    With(ensure_tasks_area_column(c2), LAMBDA c3 :
    With(ensure_tasks_section_column(c3), LAMBDA c4 :
    With(ensure_projects_order_column(c4), LAMBDA c5 :
    With(ensure_projects_area_order_index(c5), LAMBDA c6 :
        ensure_sync_revision_columns(c6))))))))

open_sqlite(db) ==
    With(open_columns(db), LAMBDA c7 :
    With(ensure_fts_triggers(c7), LAMBDA conn :
        ensure_fts_populated(conn, FALSE)))

(***************************************************************************)
(* Structured query and full-text search                                   *)
(***************************************************************************)
\* the clauses without the one on deletedAt
query_where_any_deleted(row, options) ==
    /\ (~unwrap_or(options.include_archived, FALSE)) => row.status.s # "archived"
    /\ (options.status.k = "some" /\ options.status.x # "all")
          => row.status.s = options.status.x
    /\ options.project_id.k = "some"
          => SqlEq(row.projectId, SqlText(options.project_id.x)) = "T"
\* the clauses with 'all' taken as a status like any other
query_where_all_is_a_status(row, options) ==
    /\ (~unwrap_or(options.include_deleted, FALSE)) => row.deletedAt.k = "null"
    /\ (~unwrap_or(options.include_archived, FALSE)) => row.status.s # "archived"
    /\ options.status.k = "some" => row.status.s = options.status.x
    /\ (options.exclude_statuses.k = "some" /\ Len(options.exclude_statuses.x) > 0)
          => \A i \in 1..Len(options.exclude_statuses.x) :
                row.status.s # options.exclude_statuses.x[i]
    /\ options.project_id.k = "some"
          => SqlEq(row.projectId, SqlText(options.project_id.x)) = "T"
\* WHERE clauses of query_tasks, joined by AND
query_where(row, options) ==
    /\ (~unwrap_or(options.include_deleted, FALSE)) => row.deletedAt.k = "null"
    /\ (~unwrap_or(options.include_archived, FALSE)) => row.status.s # "archived"
    /\ (options.status.k = "some" /\ options.status.x # "all")
          => row.status.s = options.status.x
    /\ (options.exclude_statuses.k = "some" /\ Len(options.exclude_statuses.x) > 0)
          => \A i \in 1..Len(options.exclude_statuses.x) :
                row.status.s # options.exclude_statuses.x[i]
    /\ options.project_id.k = "some"
          => SqlEq(row.projectId, SqlText(options.project_id.x)) = "T"

\* query_tasks on an opened connection
query_tasks(db, options) ==
    With(SelectSeq(db.tasks, LAMBDA row : query_where(row, options)), LAMBDA hits :
        [i \in 1..Len(hits) |-> row_to_task_value(hits[i])])

\* Characters: a user string is a sequence of one-character strings.
Alphanumerics == {"a", "b", "c", "1"}
Markers == {"#", "@"}

\* split_whitespace over the cleaned text: maximal runs of kept characters
RECURSIVE SplitRuns(_, _, _, _)
SplitRuns(chars, i, cur, keep) ==
    IF i > Len(chars)
    THEN IF Len(cur) > 0 THEN << cur >> ELSE << >>
    ELSE IF chars[i] \in keep
         THEN SplitRuns(chars, i + 1, Append(cur, chars[i]), keep)
         ELSE (IF Len(cur) > 0 THEN << cur >> ELSE << >>)
              \o SplitRuns(chars, i + 1, << >>, keep)

\* build_fts_query: None, or the tokens t1* t2* ... (each without its '*')
build_fts_query(input) ==
    With(SplitRuns(input, 1, << >>, Alphanumerics \cup Markers), LAMBDA tokens :
        IF Len(tokens) = 0 THEN None ELSE Some(tokens))

\* The text of the strings that titles and descriptions range over
CharsOf(str) ==
    CASE str = "ab" -> << "a", "b" >>
      [] str = "b c" -> << "b", " ", "c" >>
      [] str = "a1" -> << "a", "1" >>
      [] OTHER -> << >>

\* unicode61 tokenizer of the index: maximal runs of alphanumerics
IndexWords(str) ==
    With(SplitRuns(CharsOf(str), 1, << >>, Alphanumerics), LAMBDA runs :
        {runs[i] : i \in 1..Len(runs)})

IsPrefix(p, w) == Len(p) <= Len(w) /\ SubSeq(w, 1, Len(p)) = p

\* x_fts MATCH 't1* t2*': every prefix term occurs in the entry
FtsMatch(entry, tokens) ==
    \A i \in 1..Len(tokens) :
        \E j \in 1..Len(entry.terms) : \E w \in IndexWords(entry.terms[j]) :
            IsPrefix(tokens[i], w)

\* An FTS5 bareword holds no '#' or '@': such a query is a syntax error.
FtsSyntaxOk(tokens) ==
    \A i \in 1..Len(tokens) : \A j \in 1..Len(tokens[i]) : tokens[i][j] \notin Markers

\* SELECT t.* FROM x_fts f JOIN x t ON f.id = t.id
\*  WHERE x_fts MATCH ? AND t.deletedAt IS NULL
FtsJoin(fts, rows, tokens) ==
    SelectSeq(rows, LAMBDA t :
        /\ t.deletedAt.k = "null"
        /\ \E i \in 1..Len(fts) : SqlEq(fts[i].id, t.id) = "T" /\ FtsMatch(fts[i], tokens))

\* search_fts on an opened connection
search_fts(db, query) ==
    With(build_fts_query(query), LAMBDA q :
        IF q.k = "none" THEN Ok([tasks |-> << >>, projects |-> << >>])
        ELSE IF ~FtsSyntaxOk(q.x) THEN Err("fts5: syntax error")
        ELSE With(FtsJoin(db.tasks_fts, db.tasks, q.x), LAMBDA th :
             With(FtsJoin(db.projects_fts, db.projects, q.x), LAMBDA ph :
                 Ok([tasks |-> [i \in 1..Len(th) |-> row_to_task_value(th[i])],
                     projects |-> [i \in 1..Len(ph) |->
                                      row_to_project_value(ph[i])]]))))

(***************************************************************************)
(* File system of one directory: names bound to inodes                     *)
(***************************************************************************)
\* number of inodes the directory model can hold at once
MaxInode == 5
\* number of write() calls one write_all() takes
WriteChunks == 2

DataFile == "data.json"
BackupFile == "data.json.bak"
TmpFile == "data.json.tmp"
\* config-directory data.json of an older layout (data directory), or
\* mindwtr-sync.json (sync directory)
LegacyFile == "legacy.json"
Names == {DataFile, BackupFile, TmpFile, LegacyFile}

NoInode == [data |-> << >>, synced |-> FALSE]
EmptyFs == [dir |-> [n \in Names |-> 0], ino |-> [i \in 1..MaxInode |-> NoInode]]

exists(fs, name) == fs.dir[name] # 0
Content(fs, name) == fs.ino[fs.dir[name]].data
\* fs::read_to_string
read_to_string(fs, name) == IF exists(fs, name) THEN Some(Content(fs, name)) ELSE None

Referenced(fs, handles) == {fs.dir[n] : n \in Names} \cup handles
FreeInodes(fs, handles) == (1..MaxInode) \ Referenced(fs, handles)

\* An inode without a name and without an open handle is gone.
Reclaim(fs, handles) ==
    [fs EXCEPT !.ino = [i \in 1..MaxInode |->
                          IF i \in Referenced(fs, handles) THEN fs.ino[i] ELSE NoInode]]

\* File::create: truncates the inode the name is bound to, or binds the name
\* to a new empty inode. Gives the file system and the inode opened (0: error).
create(fs, name, handles) ==
    IF exists(fs, name)
    THEN [fs |-> [fs EXCEPT !.ino[fs.dir[name]] = NoInode], h |-> fs.dir[name]]
    ELSE With(FreeInodes(fs, handles), LAMBDA free :
        IF free = {} THEN [fs |-> fs, h |-> 0]
        ELSE With(CHOOSE x \in free : \A y \in free : x <= y, LAMBDA i :
                 [fs |-> [fs EXCEPT !.dir[name] = i, !.ino[i] = NoInode], h |-> i]))

\* a write that ignores the offset it is given
WriteAtStart(data, off, toks) == toks \o SubSeq(data, Len(toks) + 1, Len(data))

\* write() of toks at offset off of an open inode: a gap left by a truncation
\* reads as NULs
WriteAt(data, off, toks) ==
    With(IF off > Len(data)
         THEN data \o [i \in 1..(off - Len(data)) |-> Tk("nul")]
         ELSE data, LAMBDA padded :
        SubSeq(padded, 1, off) \o toks
        \o SubSeq(padded, off + Len(toks) + 1, Len(padded)))

write(fs, h, off, toks) ==
    With(toks, LAMBDA written :
        [fs EXCEPT !.ino[h] = [data |-> WriteAt(@.data, off, written), synced |-> FALSE]])

\* the data stays in the page cache
sync_not_forced(fs, h) == fs
\* File::sync_all
sync_all(fs, h) == [fs EXCEPT !.ino[h].synced = TRUE]

\* fs::write: create, write everything, close
write_file(fs, name, toks, handles) ==
    With(create(fs, name, handles), LAMBDA c :
        IF c.h = 0 THEN fs ELSE write(c.fs, c.h, 0, toks))

\* fs::copy(from, to) of an existing file
copy(fs, from, to, handles) == write_file(fs, to, Content(fs, from), handles)

remove_file(fs, name, handles) == Reclaim([fs EXCEPT !.dir[name] = 0], handles)

\* fs::rename(from, to): the name `to` is rebound in one step
rename(fs, from, to, handles) ==
    Reclaim([fs EXCEPT !.dir[to] = fs.dir[from], !.dir[from] = 0], handles)

ChunkSize(content) == (Len(content) + WriteChunks - 1) \div WriteChunks
NextChunk(content, off) ==
    With(content, LAMBDA text :
        SubSeq(text, off + 1,
               IF off + ChunkSize(text) < Len(text)
               THEN off + ChunkSize(text) ELSE Len(text)))

(***************************************************************************)
(* Data directory: bootstrap, get_data                                     *)
(***************************************************************************)
InitialData ==
    JObj([tasks |-> JArr(<< >>), projects |-> JArr(<< >>), settings |-> JObj(EmptyMap)])

\* bootstrap_storage_layout, the data.json part: an absent data.json is
\* filled from an older layout's file, else with the initial document.
ensure_data_file(fs, handles) ==
    IF exists(fs, DataFile) THEN fs
    ELSE IF exists(fs, LegacyFile) THEN copy(fs, LegacyFile, DataFile, handles)
    ELSE write_file(fs, DataFile, to_string_pretty(InitialData), handles)

settings_is_empty(value) ==
    LET o == as_object(get(value, "settings"))
    IN  IF o.k = "some" THEN DOMAIN o.x = {} ELSE TRUE

\* The settings overlay of get_data on a successful store read
overlay_settings(value, fs) ==
    IF settings_is_empty(value) /\ exists(fs, DataFile)
    THEN With(read_json_with_retries(read_to_string(fs, DataFile), 2), LAMBDA r :
             IF r.ok /\ ~settings_is_empty(r.v)
             THEN JObj(MapInsert(value.o, "settings", r.v.o["settings"]))
             ELSE value)
    ELSE value

\* get_data as one call: the result and the store and files it leaves.
\* failAt: the statement of the import at which the engine fails (0: none).
import_json(db1, fs1, handles, failAt) ==
    With(read_json_with_retries(read_to_string(fs1, DataFile), 2), LAMBDA json :
        IF ~sqlite_has_any_data(db1) /\ exists(fs1, DataFile) /\ json.ok
        THEN With(migrate_json_to_sqlite(db1, json.v, failAt), LAMBDA m :
                 [ok |-> m.ok,
                  db |-> IF m.ok THEN ensure_fts_populated(m.db, TRUE) ELSE m.db,
                  fs |-> copy(fs1, DataFile, BackupFile, handles)])
        ELSE [ok |-> TRUE, db |-> db1, fs |-> fs1])

\* (data.json.bak is consulted before data.json)
read_fallback_backup_first(primary_err, fs) ==
    With(read_json_with_retries(read_to_string(fs, BackupFile), 2), LAMBDA backup :
        IF exists(fs, BackupFile) /\ backup.ok THEN Ok(backup.v)
        ELSE With(read_json_with_retries(read_to_string(fs, DataFile), 2), LAMBDA mirror :
                 IF exists(fs, DataFile) /\ mirror.ok THEN Ok(mirror.v)
                 ELSE Err(primary_err)))

\* get_data, `Err(primary_err) =>`: data.json, then data.json.bak, then the
\* error of the store
read_fallback(primary_err, fs) ==
    With(read_json_with_retries(read_to_string(fs, DataFile), 2), LAMBDA mirror :
        IF exists(fs, DataFile) /\ mirror.ok THEN Ok(mirror.v)
        ELSE With(read_json_with_retries(read_to_string(fs, BackupFile), 2), LAMBDA backup :
                 IF exists(fs, BackupFile) /\ backup.ok THEN Ok(backup.v)
                 ELSE Err(primary_err)))

\* get_data as one call. readFails: read_sqlite_data ends with an error of
\* the engine (a statement that cannot be prepared or stepped).
get_data_reading(db, fs, handles, failAt, readFails) ==
    With(ensure_data_file(fs, handles), LAMBDA fs1 :
    With(open_sqlite(db), LAMBDA db1 :
    With(import_json(db1, fs1, handles, failAt), LAMBDA m :
        IF ~m.ok THEN [res |-> Err("import"), db |-> m.db, fs |-> m.fs]
        ELSE IF readFails
        THEN [res |-> read_fallback("read", m.fs), db |-> m.db, fs |-> m.fs]
        ELSE With(read_sqlite_data(m.db), LAMBDA value :
                 [res |-> Ok(overlay_settings(value, m.fs)),
                  db |-> m.db, fs |-> m.fs]))))

get_data(db, fs, handles, failAt) == get_data_reading(db, fs, handles, failAt, FALSE)

(***************************************************************************)
(* Documents the callers hand in                                           *)
(***************************************************************************)
\* every modelled field populated; soft-deleted
TaskFull ==
    JObj([ id |-> JStr("t1"), title |-> JStr("ab"), status |-> JStr("next"),
           tags |-> JArr(<< JStr("x") >>), contexts |-> JArr(<< JStr("c") >>),
           checklist |-> JArr(<< JStr("c") >>),
           description |-> JStr("b c"), projectId |-> JStr("p1"),
           orderNum |-> JNum(1), isFocusedToday |-> JBool(TRUE),
           deletedAt |-> JStr("d1") ])
\* required fields and the array the store always returns
TaskLive ==
    JObj([ id |-> JStr("t2"), title |-> JStr("a1"), status |-> JStr("inbox"),
           tags |-> JArr(<< >>), contexts |-> JArr(<< >>) ])
\* every optional field absent
TaskBare == JObj([ id |-> JStr("t3"), title |-> JStr("ab") ])
\* fields that are present but false, null or of another type
TaskOdd ==
    JObj([ id |-> JStr("t4"), title |-> JStr("a1"), status |-> JStr("archived"),
           tags |-> JArr(<< >>), contexts |-> JNull, isFocusedToday |-> JBool(FALSE),
           checklist |-> JNull, orderNum |-> JStr("x") ])

ProjectFull ==
    JObj([ id |-> JStr("p1"), title |-> JStr("ab"), status |-> JStr("active"),
           color |-> JStr("red"), order |-> JNum(1), tagIds |-> JArr(<< JStr("x") >>) ])
ProjectDeleted ==
    JObj([ id |-> JStr("p2"), title |-> JStr("b c"), status |-> JStr("active"),
           color |-> JStr("red"), tagIds |-> JArr(<< >>), deletedAt |-> JStr("d1") ])
ProjectBare == JObj([ id |-> JStr("p3"), title |-> JStr("a1") ])

AreaFull == JObj([ id |-> JStr("a1"), name |-> JStr("ab"), color |-> JStr("red"),
                   order |-> JNum(1) ])
AreaBare == JObj([ id |-> JStr("a2"), name |-> JStr("ab") ])

SectionFull == JObj([ id |-> JStr("s1"), projectId |-> JStr("p1"), title |-> JStr("ab"),
                      order |-> JNum(1) ])

Dark == JObj([ theme |-> JStr("dark") ])

\* The documents of the store operations: a task list, a project list and
\* the remaining keys, each in a complete, a bare and a failing variant.
TaskLists ==
    { << TaskFull, TaskLive >>, << TaskBare, TaskOdd >>, << TaskLive >>,
      << TaskLive, TaskLive >> }
ProjectLists ==
    { << ProjectFull, ProjectDeleted >>, << ProjectBare >>,
      << ProjectFull, ProjectFull >> }
RestMaps ==
    { [ areas |-> JArr(<< AreaFull >>), sections |-> JArr(<< SectionFull >>),
        settings |-> Dark ],
      [ areas |-> JArr(<< AreaBare >>) ] }

Docs ==
    { JObj(MapInsert(MapInsert(rest, "tasks", JArr(tl)), "projects", JArr(pl))) :
        tl \in TaskLists, pl \in ProjectLists, rest \in RestMaps }

\* The documents of the file protocols: short texts
MiniTask1 == JObj([ id |-> JStr("t1"), title |-> JStr("ab") ])
MiniTask2 == JObj([ id |-> JStr("t2"), title |-> JStr("a1"), deletedAt |-> JStr("d1") ])
MiniA == JObj([ tasks |-> JArr(<< MiniTask1 >>), settings |-> Dark ])
MiniB == JObj([ tasks |-> JArr(<< MiniTask2 >>) ])
MiniDup == JObj([ tasks |-> JArr(<< MiniTask1, MiniTask1 >>) ])
MiniDocs == {MiniA, MiniB, MiniDup}

\* rows the index may hold before another write is admitted
MaxFtsRows == 3
\* the same, in the runs of save_data
MaxSaveRows == 2

(***************************************************************************)
(* config.toml, secrets.toml and the secret store                          *)
(***************************************************************************)
\* The keys of AppConfigToml that the model follows. The URL and user name
\* keys are plain values as sync_backend is, and the two other AI provider
\* keys are handled as ai_key_openai is.
ConfigKeys == {"sync_path", "sync_backend", "webdav_password", "cloud_token",
               "external_calendars", "ai_key_openai"}
\* split_config_for_secrets: the keys that go to secrets.toml
SecretFileKeys == {"webdav_password", "cloud_token", "external_calendars", "ai_key_openai"}
\* migrate_legacy_secrets: the keys that go to the secret store, in its order
KeyringKeys == << "webdav_password", "cloud_token", "ai_key_openai" >>

\* str::trim on the texts that values range over
Trim(text) ==
    CASE text = " pw1 " -> "pw1"
      [] text = "  " -> ""
      [] text = " real " -> "real"
      [] text = " file " -> "file"
      [] text = " k2 " -> "k2"
      [] OTHER -> text

\* A line `key = raw` of a file: the raw text is a double-quoted, a
\* single-quoted or an unquoted text; NoLine when the key has no line.
NoLine == [q |-> "absent"]
Raw(q, text) == [q |-> q, s |-> text]

\* parse_toml_string_value (the texts here hold no quote and no backslash, so
\* the unescaping of a basic string changes nothing)
parse_toml_string_value(raw) ==
    IF raw.q = "absent" THEN None
    ELSE IF raw.q = "bare" THEN None
    ELSE Some(raw.s)

serialize_toml_string_value(value) == Raw("dq", value)

\* AppConfigToml::default()
DefaultConfig == [k \in ConfigKeys |-> None]

\* read_config_toml: a file that cannot be read gives the default
read_config_toml(file) ==
    IF file.k = "none" THEN DefaultConfig
    ELSE [k \in ConfigKeys |-> parse_toml_string_value(file.x[k])]

\* write_config_toml_with_header: one line for every key that has a value
write_config_toml(config) ==
    Some([k \in ConfigKeys |->
             IF config[k].k = "some" THEN serialize_toml_string_value(config[k].x)
             ELSE NoLine])

merge_config(base, overrides) ==
    [k \in ConfigKeys |-> IF overrides[k].k = "some" THEN overrides[k] ELSE base[k]]

split_config_for_secrets(config) ==
    [ public |-> [k \in ConfigKeys |-> IF k \in SecretFileKeys THEN None ELSE config[k]],
      secrets |-> [k \in ConfigKeys |-> IF k \in SecretFileKeys THEN config[k] ELSE None] ]

config_has_values(config) == \E k \in ConfigKeys : config[k].k = "some"

\* write_config_files: config.toml gets the public part; secrets.toml the
\* rest, and is removed when there is none
write_config_files(config) ==
    With(split_config_for_secrets(config), LAMBDA parts :
        [ config |-> write_config_toml(parts.public),
          secrets |-> IF config_has_values(parts.secrets)
                      THEN write_config_toml(parts.secrets) ELSE None ])

Backends == {"off", "file", "webdav", "cloud"}
\* (any name is taken as a backend)
normalize_backend_any(value) == Some(value)
\* normalize_backend: the match is on the exact text
normalize_backend(value) == IF value \in Backends THEN Some(value) ELSE None

\* get_keyring_secret: the entry, NoEntry as None, any other error as Err
get_keyring_secret(kr, key, avail) == IF avail THEN Ok(kr[key]) ELSE Err("keyring")

\* set_keyring_secret: a value that is not blank is stored trimmed, any other
\* deletes the entry
set_keyring_secret(kr, key, value, avail) ==
    IF ~avail THEN [ok |-> FALSE, kr |-> kr]
    ELSE IF value.k = "some" /\ Trim(value.x) # ""
    THEN [ok |-> TRUE, kr |-> [kr EXCEPT ![key] = Some(Trim(value.x))]]
    ELSE [ok |-> TRUE, kr |-> [kr EXCEPT ![key] = None]]

\* (a migration that stores the value and keeps the plaintext)
MigrateKeyKeepsPlaintext(st, key, avail) ==
    IF st.config[key].k = "some"
    THEN With(set_keyring_secret(st.kr, key, st.config[key], avail), LAMBDA r :
             IF r.ok THEN [config |-> st.config, kr |-> r.kr, migrated |-> TRUE] ELSE st)
    ELSE st

\* (a migration that clears the field whatever the secret store answers)
MigrateKeyDropsPlaintext(st, key, avail) ==
    IF st.config[key].k = "some"
    THEN With(set_keyring_secret(st.kr, key, st.config[key], avail), LAMBDA r :
             [config |-> [st.config EXCEPT ![key] = None], kr |-> r.kr, migrated |-> TRUE])
    ELSE st

\* migrate_legacy_secrets, one key: `if let Some(value) = config.key.clone()
\* { if set_keyring_secret(..).is_ok() { config.key = None; migrated = true } }`
MigrateKey(st, key, avail) ==
    IF st.config[key].k = "some"
    THEN With(set_keyring_secret(st.kr, key, st.config[key], avail), LAMBDA r :
             IF r.ok
             THEN [config |-> [st.config EXCEPT ![key] = None], kr |-> r.kr,
                   migrated |-> TRUE]
             ELSE st)
    ELSE st

RECURSIVE MigrateKeys(_, _, _)
MigrateKeys(st, keys, avail) ==
    IF Len(keys) = 0 THEN st
    ELSE With(MigrateKey(st, Head(keys), avail), LAMBDA st1 :
             MigrateKeys(st1, Tail(keys), avail))

\* migrate_legacy_secrets: gives the config, the secret store and the files
migrate_legacy_secrets(files, kr, config, avail) ==
    With(MigrateKeys([config |-> config, kr |-> kr, migrated |-> FALSE], KeyringKeys, avail),
         LAMBDA st :
        [ config |-> st.config, kr |-> st.kr,
          files |-> IF st.migrated THEN write_config_files(st.config) ELSE files ])

\* read_config
read_config(files, kr, avail) ==
    With(read_config_toml(files.config), LAMBDA base :
    With(IF files.secrets.k = "some"
         THEN merge_config(base, read_config_toml(files.secrets)) ELSE base, LAMBDA config :
        migrate_legacy_secrets(files, kr, config, avail)))

(***************************************************************************)
(* Sync directory paths                                                    *)
(***************************************************************************)
\* The entries that paths name: a directory, a symlink to it, a symlink to
\* nothing, a regular file, a name that is free, and the default directory
\* (home/Sync/mindwtr).
Paths == {"real", "link", "dangling", "file", "new", "default"}
\* what the user types, or what config.toml holds
RawPaths == Paths \cup {"", " real ", "link/", "link/data.json"}

\* normalize_sync_dir: a path that names the sync file gives its directory
normalize_sync_dir(input) == IF input = "link/data.json" THEN "link" ELSE input

\* the entry a path names, and whether the path ends in a separator
EntryOf(path) == IF path = "link/" THEN "link" ELSE path
EndsInSeparator(path) == path = "link/"

NoEntry == [kind |-> "absent", target |-> "", sync |-> None, bak |-> None]
Dir(sync) == [kind |-> "dir", target |-> "", sync |-> sync, bak |-> None]
Symlink(target) == [kind |-> "symlink", target |-> target, sync |-> None, bak |-> None]
RegularFile == [kind |-> "file", target |-> "", sync |-> None, bak |-> None]

\* fs::canonicalize: the entry after following the link; "" when it names nothing
canonicalize(tree, path) ==
    With(tree[EntryOf(path)], LAMBDA e :
        IF e.kind = "symlink"
        THEN (IF e.target \in Paths /\ tree[e.target].kind # "absent" THEN e.target ELSE "")
        ELSE IF e.kind = "absent" THEN "" ELSE EntryOf(path))

\* Path::exists follows links
path_exists(tree, path) == canonicalize(tree, path) # ""

\* fs::symlink_metadata: lstat of the path as written. lstat does not follow
\* a link that is the last component, unless a separator ends the path.
symlink_metadata(tree, path) ==
    IF EndsInSeparator(path) THEN tree[canonicalize(tree, path)] ELSE tree[EntryOf(path)]

\* fs::create_dir_all on a path that does not exist (its parent does): mkdir
\* fails with EEXIST on a link to nothing
create_dir_all(tree, path) ==
    IF tree[EntryOf(path)].kind = "absent"
    THEN [ok |-> TRUE, tree |-> [tree EXCEPT ![EntryOf(path)] = Dir(None)]]
    ELSE [ok |-> FALSE, tree |-> tree]

\* the second half of validate_sync_dir: canonicalize, then check again
validate_canonical(tree, path) ==
    With(canonicalize(tree, path), LAMBDA canonical :
        IF canonical = "" THEN [res |-> Err("No such file or directory"), tree |-> tree]
        ELSE IF tree[canonical].kind = "symlink"
        THEN [res |-> Err("Sync path must not be a symlink"), tree |-> tree]
        ELSE IF tree[canonical].kind # "dir"
        THEN [res |-> Err("Sync path must be a directory"), tree |-> tree]
        ELSE [res |-> Ok(canonical), tree |-> tree])

\* (a validation that does not look at the entry before following the link)
validate_canonical_only(tree, path) ==
    IF path = "" THEN [res |-> Err("Sync path cannot be empty"), tree |-> tree]
    ELSE validate_canonical(tree, path)

validate_sync_dir(tree, path) ==
    IF path = "" THEN [res |-> Err("Sync path cannot be empty"), tree |-> tree]
    ELSE IF path_exists(tree, path)
    THEN With(symlink_metadata(tree, path), LAMBDA metadata :
             IF metadata.kind = "symlink"
             THEN [res |-> Err("Sync path must not be a symlink"), tree |-> tree]
             ELSE IF metadata.kind # "dir"
             THEN [res |-> Err("Sync path must be a directory"), tree |-> tree]
             ELSE validate_canonical(tree, path))
    ELSE With(create_dir_all(tree, path), LAMBDA made :
             IF ~made.ok THEN [res |-> Err("File exists"), tree |-> tree]
             ELSE validate_canonical(made.tree, path))

default_sync_dir == "default"

\* resolve_sync_dir
resolve_sync_dir(tree, path) ==
    validate_sync_dir(tree, IF path.k = "some" THEN normalize_sync_dir(Trim(path.x))
                            ELSE default_sync_dir)

\* get_sync_path after read_config: the configured directory, or else the
\* default one
sync_path_of(tree, config) ==
    With(resolve_sync_dir(tree, config["sync_path"]), LAMBDA first :
        IF first.res.ok THEN first ELSE resolve_sync_dir(first.tree, None))

\* write_sync_file in a directory, when nothing else runs: data.json.bak
\* gets the old text, data.json the new one
write_sync_dir(tree, dir, data) ==
    [tree EXCEPT ![dir].bak = IF tree[dir].sync.k = "some" THEN tree[dir].sync ELSE @,
                 ![dir].sync = Some(to_string_pretty(data))]

(***************************************************************************)
(* Audio recorder                                                          *)
(***************************************************************************)
\* AudioRecorderState is `handle`: None, or the handle of the recording with
\* the number of samples in its buffer. `late` counts the threads of starts
\* that gave up waiting. `wav` is the state of the file the last stop wrote.
MaxSamples == 2
MaxLate == 2
NoRecorder == [handle |-> None, late |-> 0, wav |-> "none"]

\* what the recorder thread sends on ready_tx, "timeout" when it sends
\* nothing within two seconds
HandshakeErrors ==
    [ no_device |-> "No audio input device available",
      config |-> "Failed to read input config",
      stream |-> "Failed to create audio stream",
      play |-> "Failed to start audio stream" ]
Handshakes == {"ok", "timeout"} \cup DOMAIN HandshakeErrors

\* (a start that does not look at the state)
start_audio_recording_over(r, answer) ==
    IF answer = "ok"
    THEN [rec |-> [r EXCEPT !.handle = Some([samples |-> 0])], res |-> Ok(TRUE)]
    ELSE IF answer = "timeout"
    THEN [rec |-> [r EXCEPT !.late = @ + 1], res |-> Err("Audio device did not respond")]
    ELSE [rec |-> r, res |-> Err(HandshakeErrors[answer])]

\* start_audio_recording, the lock held from the first line to the return
start_audio_recording(r, answer) ==
    IF r.handle.k = "some" THEN [rec |-> r, res |-> Err("Recording already in progress")]
    ELSE IF answer = "ok"
    THEN [rec |-> [r EXCEPT !.handle = Some([samples |-> 0])], res |-> Ok(TRUE)]
    ELSE IF answer = "timeout"
    THEN [rec |-> [r EXCEPT !.late = @ + 1], res |-> Err("Audio device did not respond")]
    ELSE [rec |-> r, res |-> Err(HandshakeErrors[answer])]

\* the steps of stop_audio_recording that can fail after the buffer is read
StopFaults == {"none", "create_dir_all", "create", "write_sample", "finalize"}

\* stop_audio_recording: `guard.take()` first, then the wav file
stop_audio_recording(r, fault) ==
    IF r.handle.k = "none" THEN [rec |-> r, res |-> Err("No active recording")]
    ELSE With([r EXCEPT !.handle = None], LAMBDA taken :
        IF r.handle.x.samples = 0 THEN [rec |-> taken, res |-> Err("No audio captured")]
        ELSE IF fault \in {"create_dir_all", "create"}
        THEN [rec |-> taken, res |-> Err(fault)]
        ELSE IF fault \in {"write_sample", "finalize"}
        THEN [rec |-> [taken EXCEPT !.wav = "partial"], res |-> Err(fault)]
        ELSE [rec |-> [taken EXCEPT !.wav = "whole"],
              res |-> Ok([size |-> r.handle.x.samples * 2])])

(***************************************************************************)
(* Storage layout: the files that earlier versions left                    *)
(***************************************************************************)
\* LegacyAppConfigJson::default()
DefaultLegacyConfig == [data_file_path |-> None, sync_path |-> None]

\* an Option<String> field: null is None, a string Some, any other an error
option_string(v) ==
    IF v.k = "null" THEN Ok(None)
    ELSE IF v.k = "str" THEN Ok(Some(v.s))
    ELSE Err("invalid type")

\* a field of a map: one that is missing is None
option_field(o, key) == IF key \in DOMAIN o THEN option_string(o[key]) ELSE Ok(None)

\* serde_json::from_str::<LegacyAppConfigJson>(&content).unwrap_or_default():
\* the derived Deserialize takes a map, other keys ignored, or a sequence of
\* the two fields; any error gives the default
legacy_config_from_str(content) ==
    With(from_str(content), LAMBDA parsed :
        IF parsed.k = "none" THEN DefaultLegacyConfig
        ELSE IF parsed.x.k = "obj"
        THEN With(option_field(parsed.x.o, "data_file_path"), LAMBDA d :
             With(option_field(parsed.x.o, "sync_path"), LAMBDA s :
                 IF d.ok /\ s.ok THEN [data_file_path |-> d.v, sync_path |-> s.v]
                 ELSE DefaultLegacyConfig))
        ELSE IF parsed.x.k = "arr" /\ Len(parsed.x.a) = 2
        THEN With(option_string(parsed.x.a[1]), LAMBDA d :
             With(option_string(parsed.x.a[2]), LAMBDA s :
                 IF d.ok /\ s.ok THEN [data_file_path |-> d.v, sync_path |-> s.v]
                 ELSE DefaultLegacyConfig))
        ELSE DefaultLegacyConfig)

\* The files outside the data directory: config.json of the older layout,
\* the file at CustomPath, and data.json in the config directory.
CustomPath == "/old/data.json"
NoLayout == [legacy_config |-> None, custom |-> None, cfgdata |-> None]

\* PathBuf::from(custom_path).exists()
custom_exists(lay, custom_path) == custom_path = CustomPath /\ lay.custom.k = "some"

\* `let legacy_config = if let Ok(content) = fs::read_to_string(..) {..} else
\* { LegacyAppConfigJson::default() }`
read_legacy_config(lay) ==
    IF lay.legacy_config.k = "some" THEN legacy_config_from_str(lay.legacy_config.x)
    ELSE DefaultLegacyConfig

\* bootstrap_storage_layout, `if !config_path.exists()`
bootstrap_config_files(legacy_config, files) ==
    IF files.config.k = "none"
    THEN write_config_files([DefaultConfig EXCEPT !["sync_path"] = legacy_config.sync_path])
    ELSE files

\* (the older data directory is looked at first)
bootstrap_data_file_legacy_first(lay, legacy_config, fs, handles) ==
    IF exists(fs, DataFile) THEN fs
    ELSE IF exists(fs, LegacyFile) THEN copy(fs, LegacyFile, DataFile, handles)
    ELSE IF legacy_config.data_file_path.k = "some"
            /\ custom_exists(lay, legacy_config.data_file_path.x)
    THEN write_file(fs, DataFile, lay.custom.x, handles)
    ELSE IF lay.cfgdata.k = "some" THEN write_file(fs, DataFile, lay.cfgdata.x, handles)
    ELSE write_file(fs, DataFile, to_string_pretty(InitialData), handles)

\* bootstrap_storage_layout, `if !data_path.exists()`: each fs::copy is
\* followed by `return Ok(())`; ensure_data_file is the rest, from
\* get_legacy_data_json_path on
bootstrap_data_file(lay, legacy_config, fs, handles) ==
    IF exists(fs, DataFile) THEN fs
    ELSE IF legacy_config.data_file_path.k = "some"
            /\ custom_exists(lay, legacy_config.data_file_path.x)
    THEN write_file(fs, DataFile, lay.custom.x, handles)
    ELSE IF lay.cfgdata.k = "some" THEN write_file(fs, DataFile, lay.cfgdata.x, handles)
    ELSE ensure_data_file(fs, handles)

bootstrap_storage_layout(lay, files, fs, handles) ==
    With(read_legacy_config(lay), LAMBDA legacy_config :
        [ files |-> bootstrap_config_files(legacy_config, files),
          fs |-> bootstrap_data_file(lay, legacy_config, fs, handles) ])

(***************************************************************************)
(* State                                                                   *)
(***************************************************************************)
VARIABLES
    db,     \* mindwtr.db: committed content
    fs,     \* the data directory
    plat,   \* "unix" or "windows" (cfg!(windows))
    sv,     \* save_data calls on the worker pool: position and locals
    out,    \* the last store operation and what it returned
    sfs,    \* the sync directory
    sw,     \* write_sync_file calls: position and locals
    ext,    \* the external tool replacing the sync file
    rd,     \* the read_sync_file call: position and result
    conf,   \* config.toml and secrets.toml
    keyring, \* the secret store: one entry per key
    tree,   \* the entries that sync directory paths name
    opn,    \* the open_sqlite call that is followed statement by statement
    lay,    \* the files that earlier versions left outside the data directory
    rec     \* AudioRecorderState, the threads of starts that timed out, the last wav

vars == << db, fs, plat, sv, out, sfs, sw, ext, rd, conf, keyring, tree, opn, lay, rec >>
dataVars == << db, fs, sv, out >>
hostVars == << conf, keyring, tree, opn, lay, rec >>
syncVars == << sfs, sw, ext, rd >>

\* worker-pool slots that can run a save_data at the same time
Savers == {1, 2}

NoOut == [op |-> "none"]
IdleSaver ==
    [pc |-> "idle", data |-> JNull, h |-> 0, off |-> 0, at |-> "none",
     pre |-> Tables(EmptyDb), view |-> JNull]

InFlight == {"ensure", "open", "migrate", "backup", "create", "write", "sync",
             "remove", "rename"}

Handles == {sv[w].h : w \in Savers} \ {0}

FtsRoom(data) ==
    /\ Len(db.tasks_fts) + Len(ArrayOf(data, "tasks")) <= MaxFtsRows
    /\ Len(db.projects_fts) + Len(ArrayOf(data, "projects")) <= MaxFtsRows

SaveRoom(data) ==
    /\ Len(db.tasks_fts) + Len(ArrayOf(data, "tasks")) <= MaxSaveRows
    /\ Len(db.projects_fts) + Len(ArrayOf(data, "projects")) <= MaxSaveRows

(***************************************************************************)
(* Store operations on a connection                                        *)
(***************************************************************************)
StatementCount(data) == Len(migrate_statements(data))

\* open_sqlite, then migrate_json_to_sqlite(&mut conn, &data)
ReplaceAll(data, failAt) ==
    /\ FtsRoom(data)
    /\ \E r \in {migrate_json_to_sqlite(open_sqlite(db), data, failAt)} :
           /\ db' = r.db
           /\ out' = [op |-> "replaceAll", data |-> data, ok |-> r.ok]
    /\ UNCHANGED << fs, plat, sv >>
    /\ UNCHANGED syncVars
    /\ UNCHANGED hostVars

\* open_sqlite, then read_sqlite_data(&conn)
ReadAll ==
    /\ db' = open_sqlite(db)
    /\ out' = [op |-> "readAll", res |-> Ok(read_sqlite_data(db'))]
    /\ UNCHANGED << fs, plat, sv >>
    /\ UNCHANGED syncVars
    /\ UNCHANGED hostVars

OptBool == {None, Some(FALSE), Some(TRUE)}
QueryOptions ==
    [ status : {None, Some("inbox")},
      project_id : {None, Some("p1")},
      exclude_statuses : {None},
      include_deleted : OptBool,
      include_archived : {None, Some(TRUE)} ]

QueryTasks(options) ==
    /\ db' = open_sqlite(db)
    /\ out' = [op |-> "query_tasks", options |-> options,
               res |-> Ok(query_tasks(db', options))]
    /\ UNCHANGED << fs, plat, sv >>
    /\ UNCHANGED syncVars
    /\ UNCHANGED hostVars

Queries == { << >>, << "a" >>, << "b", " ", "c" >>, << "#", "a" >> }

SearchFts(query) ==
    /\ db' = open_sqlite(db)
    /\ out' = [op |-> "search_fts", query |-> query, res |-> search_fts(db', query)]
    /\ UNCHANGED << fs, plat, sv >>
    /\ UNCHANGED syncVars
    /\ UNCHANGED hostVars

\* processes that can run write_sync_file on the same sync directory
Writers == {1, 2}
IdleWriter == [pc |-> "idle", data |-> JNull, h |-> 0, off |-> 0]
IdleExt == [pc |-> "idle", text |-> << >>, h |-> 0, off |-> 0]
\* tried, bak: the reads of data.json and of data.json.bak that the call has
\* made; slept: the times it has slept
NoReads == [tried |-> 0, bak |-> 0, slept |-> 0]
IdleReader ==
    [pc |-> "idle", file |-> DataFile, left |-> 0, via |-> "none", res |-> NoOut,
     n |-> NoReads]

SyncHandles == ({sw[w].h : w \in Writers} \cup {ext.h}) \ {0}

IdleSync ==
    /\ sfs = EmptyFs
    /\ sw = [w \in Writers |-> IdleWriter]
    /\ ext = IdleExt
    /\ rd = IdleReader

\* no config file, an empty secret store, and no default sync directory yet
NoFiles == [config |-> None, secrets |-> None]
NoSecrets == [k \in {KeyringKeys[i] : i \in 1..Len(KeyringKeys)} |-> None]
FirstTree ==
    [p \in Paths |->
        CASE p = "real" -> Dir(None)
          [] p = "link" -> Symlink("real")
          [] p = "dangling" -> Symlink("nowhere")
          [] p = "file" -> RegularFile
          [] OTHER -> NoEntry]
\* no open_sqlite under way; ran: the open has run a statement of the trigger
\* rewrite; cut: the part of the rewrite in which an open was interrupted
\* since the last open that came to its end; applied: the times the rewrite
\* has been recorded in the ledger
IdleOpener == [pc |-> "idle", i |-> 0, ran |-> FALSE, cut |-> "none", applied |-> 0]
IdleHost ==
    /\ conf = NoFiles
    /\ keyring = NoSecrets
    /\ tree = FirstTree
    /\ opn = IdleOpener
    /\ lay = NoLayout
    /\ rec = NoRecorder

Init ==
    /\ db = EmptyDb
    /\ fs = EmptyFs
    /\ plat = "unix"
    /\ sv = [w \in Savers |-> IdleSaver]
    /\ out = NoOut
    /\ IdleSync
    /\ IdleHost

Next ==
    \/ \E data \in Docs : \E failAt \in 0..(StatementCount(data) + 1) :
          ReplaceAll(data, failAt)
    \/ ReadAll
    \/ \E options \in QueryOptions : QueryTasks(options)
    \/ \E query \in Queries : SearchFts(query)

\* the store's operations, one after another
Spec == Init /\ [][Next]_vars

(***************************************************************************)
(* Properties of the store operations                                      *)
(***************************************************************************)
\* The rows a document is turned into, table by table
RowsBuilt(data) ==
    [ tasks |-> [i \in 1..Len(ArrayOf(data, "tasks")) |->
                    task_params(ArrayOf(data, "tasks")[i])],
      projects |-> [i \in 1..Len(ArrayOf(data, "projects")) |->
                    project_params(ArrayOf(data, "projects")[i])],
      areas |-> [i \in 1..Len(ArrayOf(data, "areas")) |->
                    area_params(ArrayOf(data, "areas")[i])],
      sections |-> [i \in 1..Len(ArrayOf(data, "sections")) |->
                    section_params(ArrayOf(data, "sections")[i])],
      settings |-> << settings_params(data) >> ]

\* C1: replaceAll is all-or-nothing. A call that fails, at a row insert or at
\* the commit, leaves the five tables with the rows they held before it; a call
\* that succeeds leaves them with the rows built from its document and nothing
\* else.
ReplaceAllIsAllOrNothing ==
    [][ out'.op = "replaceAll" =>
          IF out'.ok THEN Tables(db') = RowsBuilt(out'.data)
          ELSE Tables(db') = Tables(db) ]_vars

\* a replaceAll has failed on a store that holds rows
ReplaceAllFailedOverRows ==
    out.op = "replaceAll" /\ ~out.ok /\ Len(db.tasks) > 0 /\ Len(db.projects) > 0

\* What the store gives back for a document: the value of a key when it has
\* the type the store keeps, else the store's default, else nothing.
HasStr(o, key) == key \in DOMAIN o /\ o[key].k = "str"
HasInt(o, key) == key \in DOMAIN o /\ o[key].k = "num"
StrOr(o, key, d) == IF HasStr(o, key) THEN o[key] ELSE JStr(d)
ArrOr(o, key) == IF key \in DOMAIN o /\ o[key].k = "arr" THEN o[key] ELSE JArr(<< >>)
Pick(o, keys) == [key \in keys |-> o[key]]

FilledTask(t) ==
    [ id |-> StrOr(t.o, "id", ""), title |-> StrOr(t.o, "title", ""),
      status |-> StrOr(t.o, "status", "inbox"), tags |-> ArrOr(t.o, "tags"),
      contexts |-> ArrOr(t.o, "contexts") ]
    @@ Pick(t.o, {key \in {"description", "projectId", "deletedAt"} : HasStr(t.o, key)}
                 \cup {key \in {"orderNum"} : HasInt(t.o, key)}
                 \cup {key \in {"checklist"} : key \in DOMAIN t.o /\ t.o[key].k # "null"}
                 \cup {key \in {"isFocusedToday"} :
                          key \in DOMAIN t.o /\ t.o[key] = JBool(TRUE)})

FilledProject(p) ==
    [ id |-> StrOr(p.o, "id", ""), title |-> StrOr(p.o, "title", ""),
      status |-> StrOr(p.o, "status", "active"),
      color |-> StrOr(p.o, "color", "#6B7280"), tagIds |-> ArrOr(p.o, "tagIds") ]
    @@ Pick(p.o, {key \in {"deletedAt"} : HasStr(p.o, key)}
                 \cup {key \in {"order"} : HasInt(p.o, key)})

FilledArea(a) ==
    [ id |-> StrOr(a.o, "id", ""), name |-> StrOr(a.o, "name", ""),
      order |-> IF HasInt(a.o, "order") THEN a.o["order"] ELSE JNum(0) ]
    @@ Pick(a.o, {key \in {"color"} : HasStr(a.o, key)})

FilledSection(x) ==
    [ id |-> StrOr(x.o, "id", ""), projectId |-> StrOr(x.o, "projectId", ""),
      title |-> StrOr(x.o, "title", "") ]
    @@ Pick(x.o, {key \in {"order"} : HasInt(x.o, key)})

FilledList(d, key, Filled(_)) ==
    JArr([i \in 1..Len(ArrOr(d.o, key).a) |-> JObj(Filled(ArrOr(d.o, key).a[i]))])

Filled(d) ==
    JObj([ tasks |-> FilledList(d, "tasks", FilledTask),
           projects |-> FilledList(d, "projects", FilledProject),
           areas |-> FilledList(d, "areas", FilledArea),
           sections |-> FilledList(d, "sections", FilledSection),
           settings |-> IF "settings" \in DOMAIN d.o /\ d.o["settings"].k = "obj"
                        THEN d.o["settings"] ELSE JObj(EmptyMap) ])

SoftDeleted(v) == "deletedAt" \in DOMAIN v.o

\* C10: a soft-deleted task is in no query_tasks result unless
\* include_deleted is set, a soft-deleted task or project is in no search_fts
\* result, and every soft-deleted row of the store is in the document that
\* readAll returns, with its deletedAt.
SoftDeletedOnlyInReadAll ==
    /\ (out.op = "query_tasks" /\ ~unwrap_or(out.options.include_deleted, FALSE))
          => \A i \in 1..Len(out.res.v) : ~SoftDeleted(out.res.v[i])
    /\ (out.op = "search_fts" /\ out.res.ok)
          => /\ \A i \in 1..Len(out.res.v.tasks) : ~SoftDeleted(out.res.v.tasks[i])
             /\ \A i \in 1..Len(out.res.v.projects) : ~SoftDeleted(out.res.v.projects[i])
    /\ out.op = "readAll"
          => /\ \A i \in 1..Len(db.tasks) : db.tasks[i].deletedAt.k = "text" =>
                   \E j \in 1..Len(out.res.v.o.tasks.a) :
                      /\ out.res.v.o.tasks.a[j].o.id = JStr(db.tasks[i].id.s)
                      /\ SoftDeleted(out.res.v.o.tasks.a[j])
             /\ \A i \in 1..Len(db.projects) : db.projects[i].deletedAt.k = "text" =>
                   \E j \in 1..Len(out.res.v.o.projects.a) :
                      /\ out.res.v.o.projects.a[j].o.id = JStr(db.projects[i].id.s)
                      /\ SoftDeleted(out.res.v.o.projects.a[j])

\* a default query on a store with a soft-deleted task has returned the others
DefaultQueryOverSoftDeleted ==
    /\ out.op = "query_tasks" /\ out.options.include_deleted = None
    /\ \E i \in 1..Len(db.tasks) : db.tasks[i].deletedAt.k = "text"
    /\ Len(out.res.v) > 0

(***************************************************************************)
(* Queries and searches over stored documents                              *)
(***************************************************************************)
\* TaskQueryOptions with every field in use
FilterOptions ==
    [ status : {None, Some("inbox"), Some("all")},
      project_id : {None, Some("p1")},
      exclude_statuses : {None, Some(<< >>), Some(<< "inbox", "done" >>)},
      include_deleted : OptBool,
      include_archived : {None, Some(TRUE)} ]

\* user input of a search: empty, blank, punctuation only, words, markers
SearchInputs ==
    { << >>, << " " >>, << " ", " " >>, << "-", " ", "." >>, << "a" >>, << "a", "b" >>,
      << "b", " ", "c" >>, << "a", "-", "1" >>, << "#", "a" >>, << "@" >> }

NextQuery ==
    \/ \E data \in Docs : ReplaceAll(data, 0)
    \/ ReadAll
    \/ \E options \in FilterOptions : QueryTasks(options)
    \/ \E query \in SearchInputs : SearchFts(query)

\* documents stored one after another, each followed by queries and searches
SpecQuery == Init /\ [][NextQuery]_vars

\* whether a task of the stored document passes the filter, read off the
\* document's own fields
Member(list, x) == \E i \in 1..Len(list) : list[i] = x
Passes(t, options) ==
    /\ SoftDeleted(t) => options.include_deleted = Some(TRUE)
    /\ t.o["status"].s = "archived" => options.include_archived = Some(TRUE)
    /\ (options.status.k = "some" /\ options.status.x # "all")
          => t.o["status"].s = options.status.x
    /\ options.exclude_statuses.k = "some"
          => ~Member(options.exclude_statuses.x, t.o["status"].s)
    /\ options.project_id.k = "some"
          => ("projectId" \in DOMAIN t.o /\ t.o["projectId"] = JStr(options.project_id.x))

\* C11: query_tasks returns exactly the stored tasks, in the store's order,
\* that are not soft-deleted (unless includeDeleted), are not archived (unless
\* includeArchived), have the requested status (when one other than 'all' is
\* given), have a status outside excludeStatuses and have the requested
\* projectId (when given).
QueryReturnsTheConjunction ==
    out.op = "query_tasks"
        => out.res = Ok(SelectSeq(read_sqlite_data(db).o["tasks"].a,
                                  LAMBDA t : Passes(t, out.options)))

\* a query with status 'all' and an exclusion list has returned some of the
\* stored tasks and left others out
QueryAllWithExclusions ==
    /\ out.op = "query_tasks"
    /\ out.options.status = Some("all")
    /\ out.options.exclude_statuses.k = "some"
    /\ Len(out.options.exclude_statuses.x) > 0
    /\ Len(out.res.v) > 0
    /\ Len(out.res.v) < Len(db.tasks)
    /\ \E i \in 1..Len(db.tasks) : Member(out.options.exclude_statuses.x, db.tasks[i].status.s)

\* The characters of a search text that survive the cleaning
Surviving(query) == {i \in 1..Len(query) : query[i] \in Alphanumerics \cup Markers}

\* C12: a search whose text holds no token (empty, blank, or only characters
\* other than alphanumerics, '#' and '@') answers with empty task and project
\* lists, never an error; any other text is run as one query of prefix
\* matches and is answered with the matching lists.
SearchAnswersWithLists ==
    out.op = "search_fts" =>
        /\ out.res.ok
        /\ Surviving(out.query) = {} =>
               out.res.v = [tasks |-> << >>, projects |-> << >>]

\* The ids a SELECT id FROM x_fts gives, and the ids of the rows of a table
\* that are not soft-deleted
IndexedIds(fts) == {fts[i].id : i \in 1..Len(fts)}
LiveIds(rows) == {rows[i].id : i \in {j \in 1..Len(rows) : rows[j].deletedAt.k = "null"}}

\* C13: between transactions the search index holds exactly the ids of the
\* tasks and projects of the store that are not soft-deleted: one entry for
\* each of them, and no entry for a soft-deleted one.
IndexHoldsTheLiveIds ==
    /\ IndexedIds(db.tasks_fts) = LiveIds(db.tasks)
    /\ Len(db.tasks_fts) = Cardinality(LiveIds(db.tasks))
    /\ IndexedIds(db.projects_fts) = LiveIds(db.projects)
    /\ Len(db.projects_fts) = Cardinality(LiveIds(db.projects))

(***************************************************************************)
(* Opening the store                                                       *)
(***************************************************************************)
\* a command opens the store and does nothing else with it
OpenSqlite ==
    /\ db' = open_sqlite(db)
    /\ out' = [op |-> "open_sqlite", before |-> db]
    /\ UNCHANGED << fs, plat, sv >>
    /\ UNCHANGED syncVars
    /\ UNCHANGED hostVars

\* The columns and indexes that open_sqlite adds to a store that lacks them
LaterColumns ==
    {<< "tasks", "purgedAt" >>, << "tasks", "orderNum" >>, << "tasks", "areaId" >>,
     << "tasks", "sectionId" >>, << "projects", "orderNum" >>}
\* the stores that lack any of the former, with the revision columns that a
\* store got together
MissingColumns ==
    {some \cup revs :
        some \in SUBSET LaterColumns,
        revs \in {{}, {<< "areas", "deletedAt" >>}, {<< "tasks", "rev" >>, << "tasks", "revBy" >>},
                  {RevisionColumns[i] : i \in 1..Len(RevisionColumns)}}}
LaterIndexes(missing) ==
    (IF << "tasks", "areaId" >> \in missing THEN {"idx_tasks_area_id"} ELSE {})
        \cup (IF << "tasks", "sectionId" >> \in missing THEN {"idx_tasks_section_id"} ELSE {})
        \cup (IF << "projects", "orderNum" >> \in missing
              THEN {"idx_projects_area_order"} ELSE {})

\* A store of today that holds the rows of a document
StoreOf(data) == migrate_json_to_sqlite(open_sqlite(EmptyDb), data, 0).db

\* The store as an earlier version of the program left it: without some of
\* the later columns and their indexes, with the ledger it had, and with or
\* without index entries for its rows.
OldStore(store, missing, ledger, indexed) ==
    [store EXCEPT
        !.columns = [t \in TableNames |-> @[t] \ {c \in @[t] : << t, c >> \in missing}],
        !.indexes = @ \ LaterIndexes(missing),
        !.schema_migrations = ledger,
        !.tasks_fts = IF indexed THEN @ ELSE << >>,
        !.projects_fts = IF indexed THEN @ ELSE << >>]

OldDoc ==
    JObj([ tasks |-> JArr(<< TaskBare, MiniTask2 >>), projects |-> JArr(<< ProjectBare >>),
           areas |-> JArr(<< AreaBare >>), settings |-> Dark ])

StoresToOpen ==
    {EmptyDb}
        \cup {OldStore(StoreOf(data), missing, ledger, indexed) :
                 data \in {MiniA, OldDoc}, missing \in MissingColumns,
                 ledger \in {{1}, {1, 2}}, indexed \in BOOLEAN}

InitOpen ==
    /\ db \in StoresToOpen
    /\ fs = EmptyFs
    /\ plat = "unix"
    /\ sv = [w \in Savers |-> IdleSaver]
    /\ out = NoOut
    /\ IdleSync
    /\ IdleHost

NextOpen ==
    \/ OpenSqlite
    \/ \E data \in MiniDocs : ReplaceAll(data, 0)
    \/ ReadAll

SpecOpen == InitOpen /\ [][NextOpen]_vars

\* C14: opening the store twice leaves it as opening it once does, in its
\* tables, columns, indexes and triggers, in the rows of the migrations
\* ledger and in the user rows: on a store that opening has just produced (from
\* a fresh file, an up-to-date store, or an old store without later columns
\* and without the version-2 ledger row), another open changes nothing.
OpenTwiceIsOpenOnce == out.op = "open_sqlite" => open_sqlite(db) = db

\* an old store with rows, without later columns and without the version-2
\* ledger row, has been opened and brought up to date
OldStoreOpened ==
    /\ out.op = "open_sqlite"
    /\ Len(out.before.tasks) > 0
    /\ 2 \notin out.before.schema_migrations
    /\ ~has_column(out.before, "tasks", "sectionId")
    /\ ~has_column(out.before, "areas", "deletedAt")
    /\ Len(out.before.tasks_fts) = 0
    /\ db.columns = [t \in TableNames |-> SchemaColumns(t)]
    /\ db.schema_migrations = {1, 2}
    /\ Len(db.tasks_fts) = Len(db.tasks)
    /\ Tables(db) = Tables(out.before)

(***************************************************************************)
(* save_data, step by step                                                 *)
(***************************************************************************)
\* the frontend invokes save_data(data); spawn_blocking hands it to a worker.
\* pre and view record the tables and the get_data document at the call.
SaveCall(w, data) ==
    /\ sv[w].pc \notin InFlight
    /\ SaveRoom(data)
    /\ sv' = [sv EXCEPT ![w] =
                [pc |-> "ensure", data |-> data, h |-> 0, off |-> 0, at |-> "none",
                 pre |-> Tables(db), view |-> get_data(db, fs, Handles, 0).res.v]]
    /\ out' = NoOut
    /\ UNCHANGED << db, fs, plat >>
    /\ UNCHANGED syncVars
    /\ UNCHANGED hostVars

SaveEnsure(w) ==
    /\ sv[w].pc = "ensure"
    /\ fs' = ensure_data_file(fs, Handles)
    /\ sv' = [sv EXCEPT ![w].pc = "open"]
    /\ out' = NoOut
    /\ UNCHANGED << db, plat >>
    /\ UNCHANGED syncVars
    /\ UNCHANGED hostVars

SaveOpen(w) ==
    /\ sv[w].pc = "open"
    /\ db' = open_sqlite(db)
    /\ sv' = [sv EXCEPT ![w].pc = "migrate"]
    /\ out' = NoOut
    /\ UNCHANGED << fs, plat >>
    /\ UNCHANGED syncVars
    /\ UNCHANGED hostVars

\* migrate_json_to_sqlite(&mut conn, &data)?
SaveMigrate(w, failAt) ==
    /\ sv[w].pc = "migrate"
    /\ \E r \in {migrate_json_to_sqlite(db, sv[w].data, failAt)} :
           /\ db' = r.db
           /\ sv' = [sv EXCEPT ![w].pc = IF r.ok THEN "backup" ELSE "err",
                               ![w].at = IF r.ok THEN "none" ELSE "migrate"]
    /\ out' = NoOut
    /\ UNCHANGED << fs, plat >>
    /\ UNCHANGED syncVars
    /\ UNCHANGED hostVars

\* `let _ = fs::copy(&data_path, &backup_path)`: the copy may fail unnoticed
SaveBackup(w, copied) ==
    /\ sv[w].pc = "backup"
    /\ fs' = IF exists(fs, DataFile) /\ copied
             THEN copy(fs, DataFile, BackupFile, Handles) ELSE fs
    /\ sv' = [sv EXCEPT ![w].pc = "create"]
    /\ out' = NoOut
    /\ UNCHANGED << db, plat >>
    /\ UNCHANGED syncVars
    /\ UNCHANGED hostVars

\* File::create(&tmp_path)?
SaveCreate(w) ==
    /\ sv[w].pc = "create"
    /\ \E c \in {create(fs, TmpFile, Handles)} :
           /\ fs' = c.fs
           /\ sv' = [sv EXCEPT ![w].pc = IF c.h = 0 THEN "err" ELSE "write",
                               ![w].at = IF c.h = 0 THEN "create" ELSE "none",
                               ![w].h = c.h, ![w].off = 0]
    /\ out' = NoOut
    /\ UNCHANGED << db, plat >>
    /\ UNCHANGED syncVars
    /\ UNCHANGED hostVars

\* one write() of write_all(content.as_bytes())
SaveWrite(w) ==
    /\ sv[w].pc = "write"
    /\ \E content \in {to_string_pretty(sv[w].data)} :
       \E chunk \in {NextChunk(content, sv[w].off)} :
           /\ fs' = write(fs, sv[w].h, sv[w].off, chunk)
           /\ sv' = [sv EXCEPT ![w].off = @ + Len(chunk),
                               ![w].pc = IF sv[w].off + Len(chunk) >= Len(content)
                                         THEN "sync" ELSE "write"]
    /\ out' = NoOut
    /\ UNCHANGED << db, plat >>
    /\ UNCHANGED syncVars
    /\ UNCHANGED hostVars

\* file.sync_all()?, then the block ends and the file is closed
SaveSync(w) ==
    /\ sv[w].pc = "sync"
    /\ fs' = Reclaim(sync_all(fs, sv[w].h), Handles \ {sv[w].h})
    /\ sv' = [sv EXCEPT ![w].pc = "remove", ![w].h = 0]
    /\ out' = NoOut
    /\ UNCHANGED << db, plat >>
    /\ UNCHANGED syncVars
    /\ UNCHANGED hostVars

\* if cfg!(windows) && data_path.exists() { fs::remove_file(&data_path)? }
SaveRemove(w) ==
    /\ sv[w].pc = "remove"
    /\ fs' = IF plat = "windows" /\ exists(fs, DataFile)
             THEN remove_file(fs, DataFile, Handles) ELSE fs
    /\ sv' = [sv EXCEPT ![w].pc = "rename"]
    /\ out' = NoOut
    /\ UNCHANGED << db, plat >>
    /\ UNCHANGED syncVars
    /\ UNCHANGED hostVars

\* fs::rename(&tmp_path, &data_path)?: fails when the temporary file is gone
SaveRename(w) ==
    /\ sv[w].pc = "rename"
    /\ IF exists(fs, TmpFile)
       THEN /\ fs' = rename(fs, TmpFile, DataFile, Handles)
            /\ sv' = [sv EXCEPT ![w].pc = "ok"]
       ELSE /\ fs' = fs
            /\ sv' = [sv EXCEPT ![w].pc = "err", ![w].at = "rename"]
    /\ out' = NoOut
    /\ UNCHANGED << db, plat >>
    /\ UNCHANGED syncVars
    /\ UNCHANGED hostVars

\* an I/O error at the step the call is about to take: `?` returns Err
FaultSteps == {"ensure", "open", "create", "write", "sync", "remove", "rename"}
SaveFault(w) ==
    /\ sv[w].pc \in FaultSteps
    /\ sv[w].pc = "remove" => (plat = "windows" /\ exists(fs, DataFile))
    /\ fs' = Reclaim(fs, Handles \ {sv[w].h})
    /\ sv' = [sv EXCEPT ![w].pc = "err", ![w].at = sv[w].pc, ![w].h = 0]
    /\ out' = NoOut
    /\ UNCHANGED << db, plat >>
    /\ UNCHANGED syncVars
    /\ UNCHANGED hostVars

\* the process is killed: every call in flight stops where it is
Kill ==
    /\ \E w \in Savers : sv[w].pc \in InFlight
    /\ fs' = Reclaim(fs, {})
    /\ sv' = [w \in Savers |->
                IF sv[w].pc \in InFlight
                THEN [sv[w] EXCEPT !.pc = "killed", !.at = sv[w].pc, !.h = 0]
                ELSE sv[w]]
    /\ out' = NoOut
    /\ UNCHANGED << db, plat >>
    /\ UNCHANGED syncVars
    /\ UNCHANGED hostVars

\* get_data, when no save_data is in flight
GetDataReading(failAt, readFails) ==
    /\ \A w \in Savers : sv[w].pc \notin InFlight
    /\ \E r \in {get_data_reading(db, fs, Handles, failAt, readFails)} :
           /\ db' = r.db
           /\ fs' = r.fs
           /\ out' = [op |-> "get_data", res |-> r.res, unreadable |-> readFails]
    /\ UNCHANGED << plat, sv >>
    /\ UNCHANGED syncVars
    /\ UNCHANGED hostVars

GetData(failAt) == GetDataReading(failAt, FALSE)

InitSave ==
    /\ db = EmptyDb
    /\ fs = EmptyFs
    /\ plat \in {"unix", "windows"}
    /\ sv = [w \in Savers |-> IdleSaver]
    /\ out = NoOut
    /\ IdleSync
    /\ IdleHost

NextSave ==
    \/ \E data \in MiniDocs : SaveCall(1, data)
    \/ SaveEnsure(1)
    \/ SaveOpen(1)
    \/ \E failAt \in 0..(StatementCount(sv[1].data) + 1) : SaveMigrate(1, failAt)
    \/ \E copied \in BOOLEAN : SaveBackup(1, copied)
    \/ SaveCreate(1)
    \/ SaveWrite(1)
    \/ SaveSync(1)
    \/ SaveRemove(1)
    \/ SaveRename(1)
    \/ SaveFault(1)
    \/ Kill
    \/ \E failAt \in {0, 1} : GetData(failAt)

\* one save_data at a time, with I/O errors, kills and restarts
SpecSave == InitSave /\ [][NextSave]_vars

(***************************************************************************)
(* Properties of save_data, one call at a time                             *)
(***************************************************************************)
\* C7: whenever save_data returns an error the store is in its pre-call
\* state, whichever step failed.
SaveErrorLeavesStore ==
    (sv[1].pc = "err" /\ out.op = "none") => Tables(db) = sv[1].pre

\* C8: after a kill at any step of save_data, get_data returns the complete
\* previous document or the complete new one.
KilledSaveIsOldOrNew ==
    (sv[1].pc = "killed" /\ out.op = "get_data" /\ out.res.ok) =>
        out.res.v \in {sv[1].view, Filled(sv[1].data)}

\* C9: data.json changes only when save_data renames onto it a temporary
\* file that holds the whole serialized document and has been forced to
\* stable storage, when the delete-first branch removes it, or when the
\* bootstrap fills in an absent file with the initial document; at every other
\* step it keeps the content it had.
MirrorChangesOnlyByRename ==
    [][ read_to_string(fs', DataFile) # read_to_string(fs, DataFile) =>
          \/ /\ sv[1].pc = "rename" /\ sv'[1].pc = "ok"
             /\ fs.ino[fs.dir[TmpFile]] =
                    [data |-> to_string_pretty(sv[1].data), synced |-> TRUE]
             /\ read_to_string(fs', DataFile) = Some(to_string_pretty(sv[1].data))
          \/ /\ plat = "windows" /\ sv[1].pc = "remove" /\ sv'[1].pc = "rename"
             /\ ~exists(fs', DataFile)
          \/ /\ ~exists(fs, DataFile)
             /\ read_to_string(fs', DataFile) = Some(to_string_pretty(InitialData)) ]_vars

\* a rename has put the new document in the place of a different old one
RenamedOverOldDocument ==
    /\ plat = "unix" /\ sv[1].pc = "ok"
    /\ Content(fs, DataFile) = to_string_pretty(sv[1].data)
    /\ exists(fs, BackupFile)
    /\ Content(fs, BackupFile) # Content(fs, DataFile)
    /\ Content(fs, BackupFile) # to_string_pretty(InitialData)

(***************************************************************************)
(* save_data calls that overlap on the worker pool                         *)
(***************************************************************************)
NextPool ==
    \/ \E w \in Savers : \E data \in {MiniA, MiniB} : SaveCall(w, data)
    \/ \E w \in Savers : SaveEnsure(w)
    \/ \E w \in Savers : SaveOpen(w)
    \/ \E w \in Savers : SaveMigrate(w, 0)
    \/ \E w \in Savers : SaveBackup(w, TRUE)
    \/ \E w \in Savers : SaveCreate(w)
    \/ \E w \in Savers : SaveWrite(w)
    \/ \E w \in Savers : SaveSync(w)
    \/ \E w \in Savers : SaveRemove(w)
    \/ \E w \in Savers : SaveRename(w)

\* two worker-pool slots, no I/O error and no kill
SpecPool == InitSave /\ [][NextPool]_vars

\* the document the mirror file holds, as the store would give it back
MirrorDocument ==
    With(read_json_with_retries(read_to_string(fs, DataFile), 2), LAMBDA r :
        IF r.ok THEN Some(Filled(r.v)) ELSE None)

\* C6: when every save_data call has returned and each returned Ok, the store
\* and the mirror file hold the same logical document, calls that overlapped
\* on the worker pool included.
StoreAndMirrorAgree ==
    ((\A w \in Savers : sv[w].pc \in {"idle", "ok"}) /\ (\E w \in Savers : sv[w].pc = "ok"))
        => MirrorDocument = Some(read_sqlite_data(db))

(***************************************************************************)
(* First run over a mirror file that another version left                  *)
(***************************************************************************)
InboxTasks ==
    { JObj([id |-> JStr(id), title |-> JStr(title), status |-> JStr("inbox")] @@ more) :
        id \in {"t1", "t2"}, title \in {"ab", "a1"},
        more \in {EmptyMap, [tags |-> JArr(<< JStr("x") >>)],
                  [projectId |-> JStr("p1"), description |-> JStr("b c")]} }

InboxMirrors ==
    { JObj([tasks |-> JArr(<< t >>)] @@ rest) :
        t \in InboxTasks,
        rest \in {EmptyMap, [settings |-> Dark],
                  [projects |-> JArr(<< ProjectBare >>), areas |-> JArr(<< AreaBare >>)]} }

ImportQueries ==
    [ status : {Some("inbox"), Some("all"), Some("completed")},
      project_id : {None}, exclude_statuses : {None, Some(<< >>)},
      include_deleted : {None}, include_archived : {None, Some(FALSE)} ]

\* an empty store (no file yet, or opened and never written) next to a
\* data.json with one task
InitImport ==
    /\ db \in {EmptyDb, open_sqlite(EmptyDb)}
    /\ fs \in {write_file(EmptyFs, DataFile, to_string_pretty(data), {}) :
                  data \in InboxMirrors}
    /\ plat = "unix"
    /\ sv = [w \in Savers |-> IdleSaver]
    /\ out = NoOut
    /\ IdleSync
    /\ IdleHost

NextImport ==
    \/ GetData(0)
    \/ \E options \in ImportQueries : QueryTasks(options)

SpecImport == InitImport /\ [][NextImport]_vars

\* the one task of the mirror file, as the store gives it back
MirrorTask == MirrorDocument.x.o["tasks"].a[1]

\* C15: with an empty store and a mirror file of one task whose status is
\* 'inbox', the first get_data imports the task into the store and returns it;
\* from then on query_tasks with status 'inbox' returns exactly that task,
\* with status 'all' returns it too, and with status 'completed' returns
\* nothing.
FirstReadImportsTheInboxTask ==
    /\ out.op = "get_data" =>
          /\ out.res.ok
          /\ out.res.v.o["tasks"] = JArr(<< MirrorTask >>)
          /\ sqlite_has_any_data(db)
    /\ (out.op = "query_tasks" /\ sqlite_has_any_data(db)) =>
          /\ Tables(db).tasks = << task_params(MirrorTask) >>
          /\ out.res = Ok(IF out.options.status = Some("completed")
                          THEN << >> ELSE << MirrorTask >>)

\* after the import, a query for every status has returned the one task
AllQueryAfterImport ==
    /\ out.op = "query_tasks"
    /\ out.options.status = Some("all")
    /\ out.res = Ok(<< MirrorTask >>)
    /\ MirrorTask.o["status"] = JStr("inbox")
    /\ exists(fs, BackupFile)

(***************************************************************************)
(* The sync directory: write_sync_file, read_sync_file, the sync tool      *)
(***************************************************************************)
\* documents written into the sync directory
\* tasks and settings of the wrong kind, projects missing
SyncOdd == JObj([ tasks |-> JNull, areas |-> JArr(<< AreaBare >>), settings |-> JArr(<< >>) ])
SyncDocs == {MiniA, MiniB, SyncOdd}

\* bytes that are not JSON, around a document
Wrapped(text) == << Tk("junk") >> \o text \o << Tk("junk") >>

\* write_sync_file(data): create_dir_all finds the directory in place
SyncCall(w, data) ==
    /\ sw[w].pc \in {"idle", "ok", "err"}
    /\ sw' = [sw EXCEPT ![w] = [pc |-> "backup", data |-> data, h |-> 0, off |-> 0]]
    /\ UNCHANGED << sfs, ext, rd, plat >>
    /\ UNCHANGED dataVars
    /\ UNCHANGED hostVars

\* `if sync_file.exists() { let _ = fs::copy(&sync_file, &backup_file); }`
SyncBackup(w, copied) ==
    /\ sw[w].pc = "backup"
    /\ sfs' = IF exists(sfs, DataFile) /\ copied
              THEN copy(sfs, DataFile, BackupFile, SyncHandles) ELSE sfs
    /\ sw' = [sw EXCEPT ![w].pc = "create"]
    /\ UNCHANGED << ext, rd, plat >>
    /\ UNCHANGED dataVars
    /\ UNCHANGED hostVars

\* File::create(&tmp_file)?
SyncCreate(w) ==
    /\ sw[w].pc = "create"
    /\ \E c \in {create(sfs, TmpFile, SyncHandles)} :
           /\ sfs' = c.fs
           /\ sw' = [sw EXCEPT ![w].pc = IF c.h = 0 THEN "err" ELSE "write",
                               ![w].h = c.h, ![w].off = 0]
    /\ UNCHANGED << ext, rd, plat >>
    /\ UNCHANGED dataVars
    /\ UNCHANGED hostVars

\* one write() of write_all(content.as_bytes())
SyncWrite(w) ==
    /\ sw[w].pc = "write"
    /\ \E content \in {to_string_pretty(sw[w].data)} :
       \E chunk \in {NextChunk(content, sw[w].off)} :
           /\ sfs' = write(sfs, sw[w].h, sw[w].off, chunk)
           /\ sw' = [sw EXCEPT ![w].off = @ + Len(chunk),
                               ![w].pc = IF sw[w].off + Len(chunk) >= Len(content)
                                         THEN "sync" ELSE "write"]
    /\ UNCHANGED << ext, rd, plat >>
    /\ UNCHANGED dataVars
    /\ UNCHANGED hostVars

\* file.sync_all()?, then the block ends and the file is closed
SyncFlush(w) ==
    /\ sw[w].pc = "sync"
    /\ sfs' = Reclaim(sync_all(sfs, sw[w].h), SyncHandles \ {sw[w].h})
    /\ sw' = [sw EXCEPT ![w].pc = "remove", ![w].h = 0]
    /\ UNCHANGED << ext, rd, plat >>
    /\ UNCHANGED dataVars
    /\ UNCHANGED hostVars

\* if cfg!(windows) && sync_file.exists() { fs::remove_file(&sync_file)? }
SyncRemove(w) ==
    /\ sw[w].pc = "remove"
    /\ sfs' = IF plat = "windows" /\ exists(sfs, DataFile)
              THEN remove_file(sfs, DataFile, SyncHandles) ELSE sfs
    /\ sw' = [sw EXCEPT ![w].pc = "rename"]
    /\ UNCHANGED << ext, rd, plat >>
    /\ UNCHANGED dataVars
    /\ UNCHANGED hostVars

\* fs::rename(&tmp_file, &sync_file)?: fails when the temporary file is gone
SyncRename(w) ==
    /\ sw[w].pc = "rename"
    /\ IF exists(sfs, TmpFile)
       THEN /\ sfs' = rename(sfs, TmpFile, DataFile, SyncHandles)
            /\ sw' = [sw EXCEPT ![w].pc = "ok"]
       ELSE /\ sfs' = sfs
            /\ sw' = [sw EXCEPT ![w].pc = "err"]
    /\ UNCHANGED << ext, rd, plat >>
    /\ UNCHANGED dataVars
    /\ UNCHANGED hostVars

\* The sync tool (Syncthing, a cloud folder client) starts replacing data.json
\* in place: the file is opened truncated, the new bytes follow.
ExtBegin(data, wrapped) ==
    /\ ext.pc = "idle"
    /\ \E c \in {create(sfs, DataFile, SyncHandles)} :
           /\ c.h # 0
           /\ sfs' = c.fs
           /\ ext' = [pc |-> "write", h |-> c.h, off |-> 0,
                      text |-> IF wrapped THEN Wrapped(to_string_pretty(data))
                               ELSE to_string_pretty(data)]
    /\ UNCHANGED << sw, rd, plat >>
    /\ UNCHANGED dataVars
    /\ UNCHANGED hostVars

ExtWrite ==
    /\ ext.pc = "write"
    /\ \E chunk \in {NextChunk(ext.text, ext.off)} :
           /\ sfs' = IF ext.off + Len(chunk) >= Len(ext.text)
                     THEN Reclaim(write(sfs, ext.h, ext.off, chunk), SyncHandles \ {ext.h})
                     ELSE write(sfs, ext.h, ext.off, chunk)
           /\ ext' = IF ext.off + Len(chunk) >= Len(ext.text) THEN IdleExt
                     ELSE [ext EXCEPT !.off = @ + Len(chunk)]
    /\ UNCHANGED << sw, rd, plat >>
    /\ UNCHANGED dataVars
    /\ UNCHANGED hostVars

\* (a branch that turns to the backup before it gives the empty document)
missing_sync_file_reads_backup(dir) ==
    IF exists(dir, BackupFile)
    THEN [pc |-> "done", file |-> BackupFile, left |-> 0, via |-> "absent",
          res |-> read_attempt(read_to_string(dir, BackupFile)), n |-> NoReads]
    ELSE [pc |-> "done", file |-> DataFile, left |-> 0, via |-> "absent",
          res |-> Ok(DefaultSyncValue), n |-> NoReads]

\* the `!sync_file.exists()` branch of read_sync_file: the file of the older
\* layout when there is one, else the empty document
missing_sync_file(dir) ==
    IF exists(dir, LegacyFile)
    THEN With(parse_json_relaxed(Content(dir, LegacyFile)), LAMBDA p :
             [pc |-> "done", file |-> LegacyFile, left |-> 0, via |-> "legacy",
              res |-> IF p.k = "some" THEN Ok(normalize_sync_value(p.x))
                      ELSE Err("parse"),
              n |-> NoReads])
    ELSE [pc |-> "done", file |-> DataFile, left |-> 0, via |-> "absent",
          res |-> Ok(DefaultSyncValue), n |-> NoReads]

\* read_sync_file up to its first read: the `!sync_file.exists()` branch
\* answers at once, else the five attempts on data.json begin
ReadCall ==
    /\ rd.pc \in {"idle", "done"}
    /\ rd' = IF exists(sfs, DataFile)
             THEN [pc |-> "attempt", file |-> DataFile, left |-> 5, via |-> "primary",
                   res |-> NoOut, n |-> NoReads]
             ELSE missing_sync_file(sfs)
    /\ UNCHANGED << sfs, sw, ext, plat >>
    /\ UNCHANGED dataVars
    /\ UNCHANGED hostVars

\* `for attempt in 0..attempts`: the budget of the loop on the file and the
\* number of the turn that is about to run
Attempts(r) == IF r.file = DataFile THEN 5 ELSE 2
Attempt(r) == Attempts(r) - r.left

\* the counts after this turn: one more read, and one more sleep when the
\* turn failed and the loop sleeps after it
Counted(r, ok) ==
    [ tried |-> r.n.tried + (IF r.file = DataFile THEN 1 ELSE 0),
      bak |-> r.n.bak + (IF r.file = BackupFile THEN 1 ELSE 0),
      slept |-> r.n.slept + (IF ~ok /\ sleeps_after(Attempt(r), Attempts(r)) THEN 1 ELSE 0) ]

\* one turn of the loop of read_json_with_retries; the sleep before the next
\* turn lets the other processes run. When the attempts on data.json are used
\* up the error is kept for the fallback.
ReadAttempt ==
    /\ rd.pc = "attempt"
    /\ \E r \in {read_attempt(read_to_string(sfs, rd.file))} :
       \E n \in {Counted(rd, r.ok)} :
           rd' = IF r.ok THEN [rd EXCEPT !.pc = "done", !.left = 0, !.res = r, !.n = n]
                 ELSE IF rd.left > 1 THEN [rd EXCEPT !.left = @ - 1, !.n = n]
                 ELSE IF rd.file = DataFile
                 THEN [rd EXCEPT !.pc = "fallback", !.left = 0, !.res = r, !.n = n]
                 ELSE [rd EXCEPT !.pc = "done", !.left = 0, !.n = n]
    /\ UNCHANGED << sfs, sw, ext, plat >>
    /\ UNCHANGED dataVars
    /\ UNCHANGED hostVars

\* Err(primary_err): `if backup_file.exists()` two attempts on it, else the error
ReadFallback ==
    /\ rd.pc = "fallback"
    /\ rd' = IF exists(sfs, BackupFile)
             THEN [rd EXCEPT !.pc = "attempt", !.file = BackupFile, !.left = 2,
                             !.via = "backup"]
             ELSE [rd EXCEPT !.pc = "done"]
    /\ UNCHANGED << sfs, sw, ext, plat >>
    /\ UNCHANGED dataVars
    /\ UNCHANGED hostVars

\* a sync directory that is empty, holds a document, holds a document and the
\* backup of an earlier one, or holds only the file of an older layout
FirstSyncDirs ==
    { EmptyFs,
      write_file(EmptyFs, DataFile, to_string_pretty(MiniA), {}),
      write_file(write_file(EmptyFs, DataFile, to_string_pretty(MiniA), {}),
                 BackupFile, to_string_pretty(MiniB), {}),
      write_file(EmptyFs, LegacyFile, to_string_pretty(MiniA), {}) }

InitMirror ==
    /\ db = EmptyDb
    /\ fs = EmptyFs
    /\ plat \in {"unix", "windows"}
    /\ sv = [w \in Savers |-> IdleSaver]
    /\ out = NoOut
    /\ sfs \in FirstSyncDirs
    /\ sw = [w \in Writers |-> IdleWriter]
    /\ ext = IdleExt
    /\ rd = IdleReader
    /\ IdleHost

NextMirror ==
    \/ \E data \in SyncDocs : SyncCall(1, data)
    \/ \E copied \in BOOLEAN : SyncBackup(1, copied)
    \/ SyncCreate(1)
    \/ SyncWrite(1)
    \/ SyncFlush(1)
    \/ SyncRemove(1)
    \/ SyncRename(1)
    \/ ReadCall
    \/ ReadAttempt
    \/ ReadFallback

\* one write_sync_file at a time, and a reader
SpecMirror == InitMirror /\ [][NextMirror]_vars

NextReplace ==
    \/ \E data \in SyncDocs : \E wrapped \in BOOLEAN : ExtBegin(data, wrapped)
    \/ ExtWrite
    \/ ReadCall
    \/ ReadAttempt
    \/ ReadFallback

\* the sync tool replacing data.json in place, and a reader
SpecReplace == InitMirror /\ [][NextReplace]_vars

NextSync ==
    \/ \E w \in Writers : \E data \in {MiniA, MiniB} : SyncCall(w, data)
    \/ \E w \in Writers : SyncBackup(w, TRUE)
    \/ \E w \in Writers : SyncCreate(w)
    \/ \E w \in Writers : SyncWrite(w)
    \/ \E w \in Writers : SyncFlush(w)
    \/ \E w \in Writers : SyncRemove(w)
    \/ \E w \in Writers : SyncRename(w)

\* two write_sync_file calls on the same directory, steps interleaved
SpecSync == InitMirror /\ [][NextSync]_vars

(***************************************************************************)
(* Properties of the sync directory                                        *)
(***************************************************************************)
\* C3: once write_sync_file has written a document D (temporary file, then
\* rename), read_json_with_retries on data.json gives D with the read-side
\* normalization applied: tasks, projects and areas that are missing become
\* empty arrays, settings that are missing become an empty map.
WrittenMirrorReadsBack ==
    sw[1].pc = "ok"
        => read_json_with_retries(read_to_string(sfs, DataFile), 5)
               = Ok(normalize_sync_value(sw[1].data))

\* a document the normalization changes has been written, and read_sync_file
\* has read it back
NormalizedDocumentReadBack ==
    /\ sw[1].pc = "ok"
    /\ normalize_sync_value(sw[1].data) # sw[1].data
    /\ rd.pc = "done"
    /\ rd.via = "primary"
    /\ rd.res = Ok(normalize_sync_value(sw[1].data))

\* C4: a read_sync_file that found data.json and races a replacement of it
\* returns, when it returns Ok, one of the complete documents involved: the
\* old one, the new one, or the one of data.json.bak.
RacingReadIsComplete ==
    (rd.pc = "done" /\ rd.via \in {"primary", "backup"} /\ rd.res.ok)
        => rd.res.v \in {normalize_sync_value(data) : data \in SyncDocs}

\* C5: with two write_sync_file calls interleaved, data.json holds at every
\* moment the complete document of one writer or the complete previous one.
DestinationHoldsOneDocument ==
    exists(sfs, DataFile)
        => Content(sfs, DataFile) \in {to_string_pretty(data) : data \in {MiniA, MiniB}}

(***************************************************************************)
(* Reading files that hold anything                                        *)
(***************************************************************************)
\* JSON values that are not documents, and documents without some keys or
\* with keys of another type
ShapeDocs ==
    { JObj(EmptyMap), JArr(<< >>), JStr("ab"), JNum(1), JNull, SyncOdd, MiniA,
      JObj([tasks |-> JObj(EmptyMap), projects |-> JStr("ab"), areas |-> JNum(1),
            settings |-> JNull]),
      JObj([sections |-> JArr(<< SectionFull >>), projects |-> JArr(<< ProjectBare >>)]) }

\* what a file can hold: a value, nothing, bytes that are no JSON
FileTexts ==
    {to_string_pretty(v) : v \in ShapeDocs}
        \cup {<< >>, << Tk("junk") >>, << Tk("bom") >>, << Tk("ws"), Tk("nul") >>}

\* the sync directory with data.json, with the file of the older layout
\* only, or with a data.json that does not parse next to a backup
ReadDirs ==
    {write_file(EmptyFs, DataFile, text, {}) : text \in FileTexts}
        \cup {write_file(EmptyFs, LegacyFile, text, {}) : text \in FileTexts}
        \cup {write_file(write_file(EmptyFs, DataFile, << Tk("junk") >>, {}),
                         BackupFile, text, {}) : text \in FileTexts}
        \cup {EmptyFs}

InitRead ==
    /\ db = EmptyDb
    /\ fs = EmptyFs
    /\ plat = "unix"
    /\ sv = [w \in Savers |-> IdleSaver]
    /\ out = NoOut
    /\ sfs \in ReadDirs
    /\ sw = [w \in Writers |-> IdleWriter]
    /\ ext = IdleExt
    /\ rd = IdleReader
    /\ IdleHost

NextRead ==
    \/ ReadCall
    \/ ReadAttempt
    \/ ReadFallback
    \/ \E data \in {SyncOdd, JArr(<< >>)} : ExtBegin(data, FALSE)
    \/ ExtWrite

SpecRead == InitRead /\ [][NextRead]_vars

HasArray(v, key) == key \in DOMAIN v.o /\ v.o[key].k = "arr"
HasMap(v, key) == key \in DOMAIN v.o /\ v.o[key].k = "obj"

\* C19: a read of a mirror or sync file that succeeds returns a document in
\* which tasks, projects and areas are arrays and settings is a map, whatever
\* the file held: a document without these keys, with keys of another type, a
\* JSON value that is no object, or nothing.
ReadDocumentHasItsKeys ==
    (rd.pc = "done" /\ rd.res.ok) =>
        /\ rd.res.v.k = "obj"
        /\ HasArray(rd.res.v, "tasks")
        /\ HasArray(rd.res.v, "projects")
        /\ HasArray(rd.res.v, "areas")
        /\ HasMap(rd.res.v, "settings")

\* a file whose four keys all have another type has been read, from the backup
WrongTypesReadFromBackup ==
    /\ rd.pc = "done"
    /\ rd.res.ok
    /\ rd.via = "backup"
    /\ exists(sfs, BackupFile)
    /\ parse_json_relaxed(Content(sfs, BackupFile)) =
           Some(JObj([tasks |-> JObj(EmptyMap), projects |-> JStr("ab"),
                      areas |-> JNum(1), settings |-> JNull]))
    /\ rd.res.v = DefaultSyncValue

\* C20: every key of the document schema that a file lacks is there, and
\* empty, in the document read from it, sections included.
ReadDocumentHasSections ==
    (rd.pc = "done" /\ rd.res.ok) =>
        /\ \A key \in {"tasks", "projects", "sections", "areas"} : HasArray(rd.res.v, key)
        /\ HasMap(rd.res.v, "settings")

(***************************************************************************)
(* Commands on the configured sync directory                               *)
(***************************************************************************)
\* set_sync_path(sync_path); `avail`: the secret store answers
SetSyncPath(sync_path, avail) ==
    /\ \E r \in {resolve_sync_dir(tree, Some(sync_path))} :
          /\ tree' = r.tree
          /\ out' = [op |-> "set_sync_path", path |-> sync_path, res |-> r.res]
          /\ IF r.res.ok
             THEN \E c \in {read_config(conf, keyring, avail)} :
                     /\ conf' = write_config_files(
                                    [c.config EXCEPT !["sync_path"] = Some(r.res.v)])
                     /\ keyring' = c.kr
             ELSE UNCHANGED << conf, keyring >>
    /\ UNCHANGED << db, fs, plat, sv, opn, lay, rec >>
    /\ UNCHANGED syncVars

\* set_sync_backend(backend)
SetSyncBackend(backend, avail) ==
    /\ \E normalized \in {normalize_backend(Trim(backend))} :
          IF normalized.k = "none"
          THEN /\ out' = [op |-> "set_sync_backend", backend |-> backend,
                          res |-> Err("Invalid sync backend")]
               /\ UNCHANGED << conf, keyring >>
          ELSE \E c \in {read_config(conf, keyring, avail)} :
                  /\ conf' = write_config_files(
                                 [c.config EXCEPT !["sync_backend"] = normalized])
                  /\ keyring' = c.kr
                  /\ out' = [op |-> "set_sync_backend", backend |-> backend,
                             res |-> Ok(TRUE)]
    /\ UNCHANGED << db, fs, plat, sv, tree, opn, lay, rec >>
    /\ UNCHANGED syncVars

\* write_sync_file(data) from get_sync_path to the rename, when nothing else
\* touches the directory
WriteSyncFile(data, avail) ==
    /\ \E c \in {read_config(conf, keyring, avail)} :
       \E r \in {sync_path_of(tree, c.config)} :
          /\ conf' = c.files
          /\ keyring' = c.kr
          /\ tree' = IF r.res.ok THEN write_sync_dir(r.tree, r.res.v, data) ELSE r.tree
          /\ out' = [op |-> "write_sync_file", stored |-> c.config["sync_path"],
                     res |-> IF r.res.ok THEN Ok(TRUE) ELSE r.res]
    /\ UNCHANGED << db, fs, plat, sv, opn, lay, rec >>
    /\ UNCHANGED syncVars

\* config.toml as an earlier run or the user left it
StoredPaths == {"real", "link", "dangling", "file", "new"}
PathFiles ==
    {NoFiles}
        \cup {[config |-> Some([k \in ConfigKeys |->
                                   IF k = "sync_path" THEN Raw(q, path) ELSE NoLine]),
               secrets |-> None] : path \in StoredPaths, q \in {"dq", "sq"}}

FirstTrees ==
    {FirstTree, [FirstTree EXCEPT !["default"] = Dir(None)],
     [FirstTree EXCEPT !["real"] = Dir(Some(to_string_pretty(MiniA)))]}

InitPath ==
    /\ db = EmptyDb
    /\ fs = EmptyFs
    /\ plat = "unix"
    /\ sv = [w \in Savers |-> IdleSaver]
    /\ out = NoOut
    /\ IdleSync
    /\ conf \in PathFiles
    /\ keyring = NoSecrets
    /\ tree \in FirstTrees
    /\ opn = IdleOpener
    /\ lay = NoLayout
    /\ rec = NoRecorder

NextPath ==
    \/ \E sync_path \in RawPaths : \E avail \in BOOLEAN : SetSyncPath(sync_path, avail)
    \/ \E data \in {MiniA, MiniB} : \E avail \in BOOLEAN : WriteSyncFile(data, avail)

SpecPath == InitPath /\ [][NextPath]_vars

\* the path names an entry that is a symlink
NamesSymlink(raw) ==
    With(EntryOf(normalize_sync_dir(Trim(raw))), LAMBDA entry :
        entry \in Paths /\ tree[entry].kind = "symlink")

\* C16: a sync directory path that is a symlink fails validation, and then no
\* directory is created and no sync file is written anywhere; this holds for
\* set_sync_path called with such a path and for write_sync_file called while
\* the configuration holds such a path.
SymlinkSyncPathIsRefused ==
    [][ /\ (out'.op = "set_sync_path" /\ NamesSymlink(out'.path))
            => (~out'.res.ok /\ tree' = tree)
        /\ (out'.op = "write_sync_file" /\ out'.stored.k = "some"
              /\ NamesSymlink(out'.stored.x))
            => (~out'.res.ok /\ tree' = tree) ]_vars

(***************************************************************************)
(* Commands that read the configuration and the credentials                *)
(***************************************************************************)
\* the values that the two files give before any migration
PlainConfig(files) ==
    merge_config(read_config_toml(files.config), read_config_toml(files.secrets))

\* what a command found when it was called
Found(avail) == [avail |-> avail, plain |-> PlainConfig(conf), kr |-> keyring]

\* the end of get_webdav_config and get_cloud_config: the secret, or else the
\* legacy value, which is then stored and taken out of the files
SecretOrLegacy(c, key, avail) ==
    With(get_keyring_secret(c.kr, key, avail), LAMBDA secret :
        IF ~secret.ok THEN [res |-> Err(secret.e), kr |-> c.kr, files |-> c.files]
        ELSE IF secret.v.k = "some" \/ c.config[key].k = "none"
        THEN [res |-> Ok(secret.v), kr |-> c.kr, files |-> c.files]
        ELSE With(set_keyring_secret(c.kr, key, c.config[key], avail), LAMBDA r :
                 IF ~r.ok THEN [res |-> Err("keyring"), kr |-> c.kr, files |-> c.files]
                 ELSE [res |-> Ok(c.config[key]), kr |-> r.kr,
                       files |-> write_config_files([c.config EXCEPT ![key] = None])]))

\* get_sync_backend: read_config and nothing else that the model follows
GetSyncBackend(avail) ==
    /\ \E c \in {read_config(conf, keyring, avail)} :
          /\ conf' = c.files
          /\ keyring' = c.kr
          /\ out' = [op |-> "get_sync_backend", found |-> Found(avail),
                     res |-> Ok(unwrap_or(normalize_backend(
                                    Trim(unwrap_or(c.config["sync_backend"], "off"))),
                                "off"))]
    /\ UNCHANGED << db, fs, plat, sv, tree, opn, lay, rec >>
    /\ UNCHANGED syncVars

\* get_webdav_config: reports hasPassword
GetWebdavConfig(avail) ==
    /\ \E c \in {read_config(conf, keyring, avail)} :
       \E r \in {SecretOrLegacy(c, "webdav_password", avail)} :
          /\ conf' = r.files
          /\ keyring' = r.kr
          /\ out' = [op |-> "get_webdav_config", found |-> Found(avail),
                     res |-> IF r.res.ok THEN Ok([hasPassword |-> r.res.v.k = "some"])
                             ELSE r.res]
    /\ UNCHANGED << db, fs, plat, sv, tree, opn, lay, rec >>
    /\ UNCHANGED syncVars

\* get_cloud_config: reports the token, "" when there is none
GetCloudConfig(avail) ==
    /\ \E c \in {read_config(conf, keyring, avail)} :
       \E r \in {SecretOrLegacy(c, "cloud_token", avail)} :
          /\ conf' = r.files
          /\ keyring' = r.kr
          /\ out' = [op |-> "get_cloud_config", found |-> Found(avail),
                     res |-> IF r.res.ok
                             THEN Ok([token |-> IF r.res.v.k = "some" THEN r.res.v.x ELSE ""])
                             ELSE r.res]
    /\ UNCHANGED << db, fs, plat, sv, tree, opn, lay, rec >>
    /\ UNCHANGED syncVars

\* get_ai_key("openai"): the secret; else the legacy value, stored when the
\* secret store takes it; else None
GetAiKey(avail) ==
    /\ \E c \in {read_config(conf, keyring, avail)} :
       \E secret \in {get_keyring_secret(c.kr, "ai_key_openai", avail)} :
          IF secret.ok /\ secret.v.k = "some"
          THEN /\ conf' = c.files
               /\ keyring' = c.kr
               /\ out' = [op |-> "get_ai_key", found |-> Found(avail), res |-> Ok(secret.v)]
          ELSE IF c.config["ai_key_openai"].k = "some"
          THEN \E r \in {set_keyring_secret(c.kr, "ai_key_openai",
                                            c.config["ai_key_openai"], avail)} :
                  /\ conf' = IF r.ok
                             THEN write_config_files(
                                      [c.config EXCEPT !["ai_key_openai"] = None])
                             ELSE c.files
                  /\ keyring' = r.kr
                  /\ out' = [op |-> "get_ai_key", found |-> Found(avail),
                             res |-> Ok(c.config["ai_key_openai"])]
          ELSE /\ conf' = c.files
               /\ keyring' = c.kr
               /\ out' = [op |-> "get_ai_key", found |-> Found(avail), res |-> Ok(None)]
    /\ UNCHANGED << db, fs, plat, sv, tree, opn, lay, rec >>
    /\ UNCHANGED syncVars

\* The lines an earlier version, or the user, left for a credential
LegacyLines == {NoLine, Raw("dq", "pw1"), Raw("sq", " pw1 "), Raw("dq", "  "), Raw("bare", "pw1")}

\* config files of an earlier version: the credentials in config.toml or in
\* secrets.toml
LegacyFiles ==
    { IF inSecrets
      THEN [config |-> Some([k \in ConfigKeys |-> NoLine]),
            secrets |-> Some([k \in ConfigKeys |->
                                 CASE k = "webdav_password" -> w
                                   [] k = "cloud_token" -> c
                                   [] k = "ai_key_openai" -> a
                                   [] OTHER -> NoLine])]
      ELSE [config |-> Some([k \in ConfigKeys |->
                                CASE k = "webdav_password" -> w
                                  [] k = "cloud_token" -> c
                                  [] k = "ai_key_openai" -> a
                                  [] k = "sync_path" -> Raw("dq", "real")
                                  [] OTHER -> NoLine]),
            secrets |-> Some([k \in ConfigKeys |->
                                 IF k = "external_calendars" THEN Raw("dq", "cal")
                                 ELSE NoLine])] :
        w \in LegacyLines, c \in LegacyLines, a \in LegacyLines, inSecrets \in BOOLEAN }

StoredSecrets == [{KeyringKeys[i] : i \in 1..Len(KeyringKeys)} -> {None, Some("pw2")}]

InitSecrets ==
    /\ db = EmptyDb
    /\ fs = EmptyFs
    /\ plat = "unix"
    /\ sv = [w \in Savers |-> IdleSaver]
    /\ out = NoOut
    /\ IdleSync
    /\ conf \in {NoFiles} \cup LegacyFiles
    /\ keyring \in StoredSecrets
    /\ tree = FirstTree
    /\ opn = IdleOpener
    /\ lay = NoLayout
    /\ rec = NoRecorder

NextSecrets ==
    \/ \E avail \in BOOLEAN : GetSyncBackend(avail)
    \/ \E avail \in BOOLEAN : GetWebdavConfig(avail)
    \/ \E avail \in BOOLEAN : GetCloudConfig(avail)
    \/ \E avail \in BOOLEAN : GetAiKey(avail)

SpecSecrets == InitSecrets /\ [][NextSecrets]_vars

ReadCommands == {"get_sync_backend", "get_webdav_config", "get_cloud_config", "get_ai_key"}
Credentials == {KeyringKeys[i] : i \in 1..Len(KeyringKeys)}

\* neither file has a line for the key
LineAbsent(files, key) ==
    \A f \in {"config", "secrets"} : files[f].k = "none" \/ files[f].x[key] = NoLine

\* C17: a legacy plaintext credential (webdav password, cloud token, AI key;
\* a value that is not blank) that the files hold and the secret store does
\* not hold is, after one command that reads the configuration while the
\* secret store answers, in the secret store (trimmed) and in neither file; a
\* further read then changes neither the secret store nor the files.
LegacyCredentialMovesOnce ==
    (out.op \in ReadCommands /\ out.found.avail) =>
        \A key \in Credentials :
            (/\ out.found.plain[key].k = "some"
             /\ Trim(out.found.plain[key].x) # ""
             /\ out.found.kr[key].k = "none")
            => /\ keyring[key] = Some(Trim(out.found.plain[key].x))
               /\ LineAbsent(conf, key)
               /\ read_config(conf, keyring, TRUE).kr = keyring
               /\ read_config(conf, keyring, TRUE).files = conf

\* a cloud token with blanks around it has moved from secrets.toml to the
\* secret store, which was empty before
LegacyTokenMoved ==
    /\ out.op = "get_cloud_config"
    /\ out.found.avail
    /\ out.found.plain["cloud_token"] = Some(" pw1 ")
    /\ out.found.kr = NoSecrets
    /\ keyring["cloud_token"] = Some("pw1")
    /\ out.res = Ok([token |-> "pw1"])
    /\ conf.secrets = None

\* C18: when a credential has a value in the secret store and a legacy value
\* in the files, every read command (get_webdav_config, get_cloud_config,
\* get_ai_key, and the read_config they start with) reports the value of the
\* secret store and leaves it as it is.
SecretStoreValueWins ==
    (out.op \in ReadCommands /\ out.found.avail) =>
        \A key \in Credentials :
            (out.found.kr[key].k = "some" /\ out.found.plain[key].k = "some")
            => /\ keyring[key] = out.found.kr[key]
               /\ (out.op = "get_cloud_config" /\ key = "cloud_token")
                     => out.res = Ok([token |-> out.found.kr[key].x])
               /\ (out.op = "get_ai_key" /\ key = "ai_key_openai")
                     => out.res = Ok(out.found.kr[key])
               /\ (out.op = "get_webdav_config" /\ key = "webdav_password")
                     => out.res = Ok([hasPassword |-> TRUE])

(***************************************************************************)
(* Documents whose entities share an id or have none                       *)
(***************************************************************************)
Entity1 == JObj([ id |-> JStr("e1"), title |-> JStr("ab"), name |-> JStr("ab") ])
Entity2 == JObj([ id |-> JStr("e2"), title |-> JStr("a1"), name |-> JStr("a1") ])
\* no id member, and an id that is not a string
Anonymous == JObj([ title |-> JStr("ab"), name |-> JStr("ab") ])
Anonymous2 == JObj([ title |-> JStr("a1"), name |-> JStr("a1") ])
NumberedId == JObj([ id |-> JNum(1), title |-> JStr("ab"), name |-> JStr("ab") ])

EntityLists ==
    { << Entity1, Entity2 >>, << Anonymous, Entity1 >>, << Entity1, Entity1 >>,
      << Entity1, Entity2, Entity1 >>, << Anonymous, Anonymous2 >>,
      << Anonymous, NumberedId >> }
EntityKeys == {"tasks", "projects", "areas", "sections"}
IdDocs == { JObj(key :> JArr(list)) : key \in EntityKeys, list \in EntityLists }

NextIds ==
    \/ \E data \in IdDocs : ReplaceAll(data, 0)
    \/ ReadAll

\* documents of one kind of entity, stored one after another
SpecIds == Init /\ [][NextIds]_vars

\* The id of an entity of a document as written: its "id" string, or nothing
WrittenId(entity) ==
    IF entity.k = "obj" /\ HasStr(entity.o, "id") THEN entity.o["id"].s ELSE ""
SharesAnId(data) ==
    \E key \in EntityKeys \cap DOMAIN data.o :
        \E i, j \in 1..Len(data.o[key].a) :
            i # j /\ WrittenId(data.o[key].a[i]) = WrittenId(data.o[key].a[j])
UniqueIds(rows) == \A i, j \in 1..Len(rows) : rows[i].id = rows[j].id => i = j

\* C21: every id is unique within its table in every reachable state; a
\* replaceAll whose document holds two tasks, projects, areas or sections
\* with the same id, or two of them with no id, fails as a whole and leaves
\* the five tables with the rows they held before it.
IdsAreUniqueInEachTable ==
    [][ /\ \A key \in EntityKeys : UniqueIds(db'[key])
        /\ (out'.op = "replaceAll" /\ SharesAnId(out'.data))
              => (~out'.ok /\ Tables(db') = Tables(db)) ]_vars

\* a document with two sections that have no id has been refused by a store
\* that holds the sections of an earlier document
TwoSectionsWithoutIdRefused ==
    /\ out.op = "replaceAll" /\ ~out.ok
    /\ out.data = JObj("sections" :> JArr(<< Anonymous, Anonymous2 >>))
    /\ Len(db.sections) = 2
    /\ db.sections[1].id = SqlText("")

(***************************************************************************)
(* The retry budget of read_sync_file                                      *)
(***************************************************************************)
NextRetry ==
    \/ \E data \in SyncDocs : \E wrapped \in BOOLEAN : ExtBegin(data, wrapped)
    \/ ExtWrite
    \/ ReadCall
    \/ ReadAttempt
    \/ ReadFallback

\* A reader whose thread keeps running, next to a sync tool that rewrites
\* data.json whenever it wants, over files that hold anything
SpecRetry == InitRead /\ [][NextRetry]_vars /\ WF_vars(ReadAttempt) /\ WF_vars(ReadFallback)

Parses(dir, file) == exists(dir, file) /\ parse_json_relaxed(Content(dir, file)).k = "some"

\* the loops of the call that have run to their end
LoopsEnded(r) ==
    (IF r.n.tried > 0 /\ (r.pc \in {"fallback", "done"} \/ r.via = "backup") THEN 1 ELSE 0)
        + (IF r.n.bak > 0 /\ r.pc = "done" THEN 1 ELSE 0)

\* C22: read_sync_file on an existing data.json reads it at most 5 times and
\* returns at the first read that parses; it reads data.json.bak only after 5
\* failed reads of data.json, at most twice; it sleeps between the reads of a
\* loop and never after the last one; and it always comes to a result or an
\* error, also when data.json never becomes readable.
ReadStaysWithinItsBudget ==
    /\ [](/\ rd.n.tried <= 5 /\ rd.n.bak <= 2
          /\ rd.n.bak > 0 => rd.n.tried = 5
          /\ rd.n.slept = rd.n.tried + rd.n.bak - LoopsEnded(rd))
    /\ [][ (rd' # rd) =>
           /\ (rd.pc = "attempt" /\ rd'.pc # "attempt")
                 => (rd'.res.ok <=> Parses(sfs, rd.file))
           /\ (rd.pc = "attempt" /\ Parses(sfs, rd.file))
                 => (rd'.pc = "done" /\ rd'.res.ok)
           /\ (rd.pc = "attempt" /\ ~Parses(sfs, rd.file) /\ rd'.pc # "attempt")
                 => (rd'.n.tried = 5 /\ (rd.via = "backup" => rd'.n.bak = 2))
           /\ (rd'.via = "backup" /\ rd.via # "backup")
                 => (rd.pc = "fallback" /\ rd.n.tried = 5 /\ ~rd.res.ok) ]_vars
    /\ (rd.pc \in {"attempt", "fallback"}) ~> (rd.pc = "done")

\* data.json and its backup stayed unreadable through all seven reads: the
\* call has ended with the error, after five sleeps
BudgetUsedUp ==
    /\ rd.pc = "done"
    /\ ~rd.res.ok
    /\ rd.via = "backup"
    /\ rd.n = [tried |-> 5, bak |-> 2, slept |-> 5]
    /\ ext.pc = "write"

\* What the chain of fallbacks gives over a directory: the backup when it can
\* be read, else the file of the older layout, else the empty document
ReadOf(dir, file) == Ok(normalize_sync_value(parse_json_relaxed(Content(dir, file)).x))
ChainResult(dir) ==
    IF Parses(dir, BackupFile) THEN ReadOf(dir, BackupFile)
    ELSE IF Parses(dir, LegacyFile) THEN ReadOf(dir, LegacyFile)
    ELSE Ok(DefaultSyncValue)

\* the call has used up the five reads of data.json
Exhausted(r) == r.n.tried = 5 /\ (r.via = "backup" \/ ~r.res.ok)

\* C23: a read that has used up the retry budget of data.json returns the
\* first that is available of the backup file, the legacy-named file and the
\* empty default document.
ExhaustedReadFallsThroughChain ==
    [][ (rd.pc # "done" /\ rd'.pc = "done" /\ Exhausted(rd'))
            => rd'.res = ChainResult(sfs) ]_vars

(***************************************************************************)
(* A read while the destination is away                                    *)
(***************************************************************************)
\* C24: a read_sync_file that finds neither data.json nor the legacy-named
\* file returns the empty default document at once, without a read of
\* data.json or of data.json.bak and without a sleep, whatever the backup and
\* the temporary file hold.
AbsentFileReadsAsEmpty ==
    [][ (rd' # rd /\ rd.pc \in {"idle", "done"}
            /\ ~exists(sfs, DataFile) /\ ~exists(sfs, LegacyFile))
          => (rd'.pc = "done" /\ rd'.res = Ok(DefaultSyncValue) /\ rd'.n = NoReads) ]_vars

\* a reader came between the writer's delete of data.json and its rename and
\* got the empty document, with a complete document in the backup and the
\* writer's complete document in the temporary file
EmptyReadBetweenDeleteAndRename ==
    /\ plat = "windows"
    /\ sw[1].pc = "rename"
    /\ ~exists(sfs, DataFile)
    /\ rd.pc = "done" /\ rd.via = "absent"
    /\ rd.res = Ok(DefaultSyncValue)
    /\ Parses(sfs, BackupFile)
    /\ Len(ReadOf(sfs, BackupFile).v.o["tasks"].a) > 0
    /\ exists(sfs, TmpFile)
    /\ Content(sfs, TmpFile) = to_string_pretty(sw[1].data)

(***************************************************************************)
(* open_sqlite, statement by statement                                     *)
(***************************************************************************)
\* Every statement of ensure_fts_triggers is a transaction of its own; the
\* process can end between any two of them.
OpenerVars == << fs, plat, sv, out >>

\* a command starts open_sqlite
OpenBegin ==
    /\ opn.pc \in {"idle", "done", "err"}
    /\ opn' = [opn EXCEPT !.pc = "schema", !.i = 0, !.ran = FALSE,
                           !.cut = IF opn.pc = "idle" THEN @ ELSE "none"]
    /\ UNCHANGED << db, conf, keyring, tree, lay, rec >>
    /\ UNCHANGED OpenerVars
    /\ UNCHANGED syncVars

\* execute_batch(SQLITE_SCHEMA) and the ensure_*_column calls
OpenColumns ==
    /\ opn.pc = "schema"
    /\ db' = open_columns(db)
    /\ opn' = [opn EXCEPT !.pc = "check"]
    /\ UNCHANGED << conf, keyring, tree, lay, rec >>
    /\ UNCHANGED OpenerVars
    /\ UNCHANGED syncVars

\* ensure_fts_triggers: `if has_v2.is_some() { return Ok(()) }`
OpenCheck ==
    /\ opn.pc = "check"
    /\ opn' = IF has_v2(db) THEN [opn EXCEPT !.pc = "populate"]
              ELSE [opn EXCEPT !.pc = "drop", !.i = 1]
    /\ UNCHANGED << db, conf, keyring, tree, lay, rec >>
    /\ UNCHANGED OpenerVars
    /\ UNCHANGED syncVars

\* one DROP TRIGGER IF EXISTS
OpenDrop ==
    /\ opn.pc = "drop"
    /\ db' = drop_trigger(db, RewriteOrder[opn.i])
    /\ opn' = IF opn.i < Len(RewriteOrder) THEN [opn EXCEPT !.i = @ + 1, !.ran = TRUE]
              ELSE [opn EXCEPT !.pc = "create", !.i = 1, !.ran = TRUE]
    /\ UNCHANGED << conf, keyring, tree, lay, rec >>
    /\ UNCHANGED OpenerVars
    /\ UNCHANGED syncVars

\* one CREATE TRIGGER; `?` returns its error
OpenCreate ==
    /\ opn.pc = "create"
    /\ \E r \in {create_trigger(db, RewriteOrder[opn.i])} :
          /\ db' = IF r.ok THEN r.v ELSE db
          /\ opn' = IF ~r.ok THEN [opn EXCEPT !.pc = "err"]
                    ELSE IF opn.i < Len(RewriteOrder) THEN [opn EXCEPT !.i = @ + 1]
                    ELSE [opn EXCEPT !.pc = "record"]
    /\ UNCHANGED << conf, keyring, tree, lay, rec >>
    /\ UNCHANGED OpenerVars
    /\ UNCHANGED syncVars

\* INSERT OR IGNORE INTO schema_migrations (version) VALUES (2)
OpenRecord ==
    /\ opn.pc = "record"
    /\ db' = record_version(db, 2)
    /\ opn' = [opn EXCEPT !.pc = "populate", !.applied = @ + 1]
    /\ UNCHANGED << conf, keyring, tree, lay, rec >>
    /\ UNCHANGED OpenerVars
    /\ UNCHANGED syncVars

\* ensure_fts_populated(&conn, false), then Ok(conn)
OpenPopulate ==
    /\ opn.pc = "populate"
    /\ db' = ensure_fts_populated(db, FALSE)
    /\ opn' = [opn EXCEPT !.pc = "done"]
    /\ UNCHANGED << conf, keyring, tree, lay, rec >>
    /\ UNCHANGED OpenerVars
    /\ UNCHANGED syncVars

\* the process ends (killed, power lost) with an open under way; the
\* statements that ran stay
OpenKill ==
    /\ opn.pc \in {"schema", "check", "drop", "create", "record", "populate"}
    /\ opn' = [opn EXCEPT !.pc = "idle",
                           !.cut = IF opn.pc \in {"drop", "create", "record"} THEN opn.pc
                                   ELSE @]
    /\ UNCHANGED << db, conf, keyring, tree, lay, rec >>
    /\ UNCHANGED OpenerVars
    /\ UNCHANGED syncVars

\* a command that has the store open replaces its content
StoreOpened(data) ==
    /\ opn.pc = "done"
    /\ ReplaceAll(data, 0)

\* stores of an earlier version, of today, and a file without any object
StoresToMigrate ==
    {EmptyDb}
        \cup {OldStore(StoreOf(data), missing, ledger, indexed) :
                 data \in {MiniA, OldDoc},
                 missing \in {{}, LaterColumns},
                 ledger \in {{1}, {1, 2}}, indexed \in BOOLEAN}

InitMigrate ==
    /\ db \in StoresToMigrate
    /\ fs = EmptyFs
    /\ plat = "unix"
    /\ sv = [w \in Savers |-> IdleSaver]
    /\ out = NoOut
    /\ IdleSync
    /\ IdleHost

NextMigrate ==
    \/ OpenBegin
    \/ OpenColumns
    \/ OpenCheck
    \/ OpenDrop
    \/ OpenCreate
    \/ OpenRecord
    \/ OpenPopulate
    \/ OpenKill
    \/ \E data \in MiniDocs : StoreOpened(data)

\* opens that can be cut short anywhere, one after another
SpecMigrate == InitMigrate /\ [][NextMigrate]_vars

Max(S) == CHOOSE x \in S : \A y \in S : y <= x
Rewriting == {"drop", "create", "record"}

\* C25: the trigger rewrite runs only in an open that found no version-2 row
\* in the ledger; an open that ran it ends by inserting version 2; once
\* version 2 is in the ledger no open drops or creates a trigger; the ledger
\* only grows and its highest version never decreases.
RewriteRunsOnceAndIsRecorded ==
    [][ /\ opn'.pc \in Rewriting \cup {"err"} => ~has_v2(db)
        /\ (opn.pc \in Rewriting /\ opn'.pc \notin Rewriting \cup {"idle", "err"})
              => (opn.pc = "record" /\ has_v2(db') /\ ~has_v2(db))
        /\ (opn'.pc = "done" /\ opn'.ran) => has_v2(db')
        /\ has_v2(db) => (db'.triggers = db.triggers \/ db.triggers \subseteq db'.triggers)
        /\ has_v2(db) => opn'.pc \notin Rewriting
        /\ opn'.applied <= 1
        /\ db.schema_migrations \subseteq db'.schema_migrations
        /\ db.schema_migrations # {}
              => Max(db'.schema_migrations) >= Max(db.schema_migrations) ]_vars

\* an old store with rows has been opened, the rewrite ran and was recorded,
\* and a later open has gone straight to its end
RewrittenStoreOpenedAgain ==
    /\ opn.pc = "done" /\ ~opn.ran
    /\ opn.applied = 1
    /\ opn.cut = "none"
    /\ db.schema_migrations = {1, 2}
    /\ AllTriggers \subseteq db.triggers
    /\ Len(db.tasks) > 0
    /\ out = NoOut

\* One index entry for each row of the table, with the row's indexed text
IndexMatches(d, table) ==
    /\ Len(d[FtsTableOf(table)]) = Len(d[table])
    /\ \A i \in 1..Len(d[table]) : d[FtsTableOf(table)][i].terms = TermsOf(table, d[table][i])

Bootstrap ==
    /\ \E r \in {bootstrap_storage_layout(lay, conf, fs, Handles)} :
          /\ conf' = r.files
          /\ fs' = r.fs
    /\ out' = [op |-> "bootstrap", had_data |-> exists(fs, DataFile),
               had_config |-> conf.config.k = "some"]
    /\ UNCHANGED << db, plat, sv, keyring, tree, opn, lay, rec >>
    /\ UNCHANGED syncVars

\* config.json as an earlier version or anything else wrote it
LegacyConfigTexts ==
    { to_string(JObj([data_file_path |-> JStr(CustomPath), sync_path |-> JStr("real")])),
      to_string(JObj([data_file_path |-> JStr(CustomPath)])),
      to_string(JObj([data_file_path |-> JStr("/gone/data.json"), theme |-> JStr("dark")])),
      to_string(JObj([data_file_path |-> JNull, sync_path |-> JStr("real")])),
      to_string(JObj([data_file_path |-> JNum(7), sync_path |-> JStr("real")])),
      to_string(JArr(<< JStr(CustomPath), JNull >>)),
      << Tk("lbrace") >> }

Layouts ==
    [ legacy_config : {None} \cup {Some(text) : text \in LegacyConfigTexts},
      custom : {None, Some(to_string_pretty(MiniA))},
      cfgdata : {None, Some(to_string_pretty(MiniB))} ]

\* the data directory: data.json with a document or with anything, or none,
\* and the older data directory's file or none
FileWith(dir, name, text) == write_file(dir, name, text, {})
DataDirs ==
    UNION { {data, FileWith(data, LegacyFile, to_string_pretty(OldDoc))} :
               data \in {EmptyFs, FileWith(EmptyFs, DataFile, to_string_pretty(MiniDup)),
                         FileWith(EmptyFs, DataFile, << Tk("lbrace") >>)} }

ConfigFiles ==
    { NoFiles,
      [config |-> Some([k \in ConfigKeys |->
                           IF k = "sync_path" THEN Raw("sq", "link") ELSE NoLine]),
       secrets |-> None],
      [config |-> Some([k \in ConfigKeys |-> NoLine]),
       secrets |-> Some([k \in ConfigKeys |->
                            IF k = "cloud_token" THEN Raw("dq", "pw1") ELSE NoLine])] }

StoresAtStart ==
    { EmptyDb, OldStore(StoreOf(OldDoc), LaterColumns, {1}, FALSE),
      OldStore(StoreOf(MiniA), {<< "tasks", "rev" >>, << "tasks", "revBy" >>}, {1, 2}, TRUE) }

InitBootstrap ==
    /\ db \in StoresAtStart
    /\ fs \in DataDirs
    /\ plat = "unix"
    /\ sv = [w \in Savers |-> IdleSaver]
    /\ out = NoOut
    /\ IdleSync
    /\ conf \in ConfigFiles
    /\ keyring = NoSecrets
    /\ tree = FirstTree
    /\ opn = IdleOpener
    /\ lay \in Layouts
    /\ rec = NoRecorder

NextBootstrap ==
    \/ Bootstrap
    \/ OpenSqlite

\* the start of a command: the layout, then the store
SpecBootstrap == InitBootstrap /\ [][NextBootstrap]_vars

\* what an absent data.json is to be filled with: the first source there is
FirstSource ==
    LET named == read_legacy_config(lay).data_file_path
    IN  IF named.k = "some" /\ named.x = CustomPath /\ lay.custom.k = "some"
        THEN lay.custom.x
        ELSE IF lay.cfgdata.k = "some" THEN lay.cfgdata.x
        ELSE IF exists(fs, LegacyFile) THEN Content(fs, LegacyFile)
        ELSE to_string_pretty(InitialData)

\* the rows of a table are the rows it had, column by column; a column that
\* was not there reads NULL
RowsKept(before, after, table) ==
    /\ Len(after[table]) = Len(before[table])
    /\ \A i \in 1..Len(before[table]) :
          /\ DOMAIN after[table][i] = DOMAIN before[table][i]
          /\ \A c \in DOMAIN before[table][i] :
                after[table][i][c] =
                    IF c \in before.columns[table] \/ before.columns[table] = {}
                       \/ c \notin after.columns[table]
                    THEN before[table][i][c] ELSE SqlNull

\* C27: the bootstrap and the opening of the store only add. A bootstrap
\* leaves an existing data.json and an existing config.toml (with its
\* secrets.toml) as they are, fills an absent data.json with the content of
\* the first source there is -- the file the older config.json names, then
\* data.json of the config directory, then data.json of the older data
\* directory, then the initial document -- and changes no other file and no
\* row. Opening a store keeps every row, value by value, with NULL in the
\* columns it adds, and keeps every column, index, trigger name and ledger
\* row that was there.
BootstrapAndOpenOnlyAdd ==
    [][ /\ out'.op = "bootstrap" /\ (out # out' \/ fs # fs' \/ conf # conf') =>
            /\ exists(fs, DataFile) => fs' = fs
            /\ conf.config.k = "some" => conf' = conf
            /\ ~exists(fs, DataFile) =>
                  /\ exists(fs', DataFile)
                  /\ Content(fs', DataFile) = FirstSource
                  /\ \A n \in Names \ {DataFile} :
                        /\ exists(fs', n) = exists(fs, n)
                        /\ exists(fs, n) => Content(fs', n) = Content(fs, n)
            /\ db' = db
            /\ lay' = lay
        /\ db' # db =>
            /\ \A t \in DOMAIN Tables(db) : RowsKept(db, db', t)
            /\ \A t \in TableNames : db.columns[t] \subseteq db'.columns[t]
            /\ db.indexes \subseteq db'.indexes
            /\ db.triggers \subseteq db'.triggers
            /\ db.schema_migrations \subseteq db'.schema_migrations
            /\ fs' = fs /\ conf' = conf /\ lay' = lay ]_vars

\* data.json was absent with all three sources there and has the content of
\* the file that config.json names; then the store of an earlier version,
\* rows and all, has been opened and has the later columns
FilledFromCustomPathThenOpened ==
    /\ out.op = "open_sqlite"
    /\ lay.custom.k = "some" /\ lay.cfgdata.k = "some" /\ exists(fs, LegacyFile)
    /\ exists(fs, DataFile) /\ Content(fs, DataFile) = lay.custom.x
    /\ Content(fs, DataFile) # lay.cfgdata.x
    /\ Content(fs, DataFile) # Content(fs, LegacyFile)
    /\ conf.config.k = "some"
    /\ Len(out.before.tasks) = 2
    /\ ~has_column(out.before, "tasks", "sectionId")
    /\ has_column(db, "tasks", "sectionId")
    /\ Tables(db) = Tables(out.before)

(***************************************************************************)
(* The index after replaceAll calls                                        *)
(***************************************************************************)
TableIds(rows) == {rows[i].id : i \in 1..Len(rows)}

\* C28: after any sequence of replaceAll calls, each one committed or rolled
\* back, the ids that have an entry in the task index are the ids of the
\* tasks table, one entry for each, and the same for projects.
IndexIdsAreTableIds ==
    /\ IndexedIds(db.tasks_fts) = TableIds(db.tasks)
    /\ Len(db.tasks_fts) = Len(db.tasks)
    /\ IndexedIds(db.projects_fts) = TableIds(db.projects)
    /\ Len(db.projects_fts) = Len(db.projects)

\* a transaction that is rolled back leaves both indexes as the open before
\* it left them
RolledBackKeepsIndex ==
    [][ (out'.op = "replaceAll" /\ ~out'.ok) =>
            /\ db'.tasks_fts = open_sqlite(db).tasks_fts
            /\ db'.projects_fts = open_sqlite(db).projects_fts ]_vars

(***************************************************************************)
(* The index check of an open                                              *)
(***************************************************************************)
\* C29: an open rebuilds the index of tasks, and that of projects, when it
\* is empty, when a row has no entry or when an entry has no row, and leaves
\* it untouched otherwise: when open_sqlite returns, the index holds one
\* entry for each row of its table, made from that row, and no other entry,
\* and an index that was so before, and not empty, is the index it was.
OpenedIndexMatchesRows ==
    out.op = "open_sqlite" =>
        \A table \in {"tasks", "projects"} :
            /\ IndexMatches(db, table)
            /\ (IndexMatches(out.before, table) /\ Len(out.before[FtsTableOf(table)]) > 0)
                   => db[FtsTableOf(table)] = out.before[FtsTableOf(table)]

(***************************************************************************)
(* get_data next to a data.json that others write                          *)
(***************************************************************************)
\* another process writes data.json
MirrorEdited(text) ==
    /\ fs' = write_file(fs, DataFile, text, Handles)
    /\ out' = [op |-> "edited"]
    /\ UNCHANGED << db, plat, sv >>
    /\ UNCHANGED syncVars
    /\ UNCHANGED hostVars

\* another process removes data.json
MirrorRemoved ==
    /\ exists(fs, DataFile)
    /\ fs' = remove_file(fs, DataFile, Handles)
    /\ out' = [op |-> "edited"]
    /\ UNCHANGED << db, plat, sv >>
    /\ UNCHANGED syncVars
    /\ UNCHANGED hostVars

SectionsOnly == JObj([ sections |-> JArr(<< JObj([id |-> JStr("s1"), title |-> JStr("ab")]) >>) ])
EditedTexts ==
    { to_string_pretty(MiniA), to_string(MiniB), to_string_pretty(InitialData),
      << Tk("lbrace") >> }
ReplacingDocs == {MiniA, MiniB, InitialData, SectionsOnly}
\* the statements at which an import is made to fail (0: none)
ImportFailures == {0, 1, 6, 7}

NextReimport ==
    \/ \E failAt \in ImportFailures : GetData(failAt)
    \/ \E data \in ReplacingDocs : \E failAt \in ImportFailures : ReplaceAll(data, failAt)
    \/ \E text \in EditedTexts : MirrorEdited(text)
    \/ MirrorRemoved

\* get_data and replaceAll calls with data.json changing between them
SpecReimport == Init /\ [][NextReimport]_vars

\* no task, project, area or settings row
NoRows(d) ==
    Len(d.tasks) = 0 /\ Len(d.projects) = 0 /\ Len(d.areas) = 0 /\ Len(d.settings) = 0

\* C30: data.json is imported only into a store without a task, project,
\* area or settings row. A replaceAll or an import that succeeded leaves a
\* store that has such a row, a store that has one keeps having one, and a
\* get_data on a store that has one leaves the rows of every table as they
\* are, whatever data.json holds by then.
ImportOnlyIntoEmptyStore ==
    /\ [](out.op = "replaceAll" /\ out.ok => ~NoRows(db))
    /\ [][ /\ ~NoRows(db) => ~NoRows(db')
           /\ (out'.op = "get_data" /\ Tables(db') # Tables(db)) =>
                 /\ NoRows(db)
                 /\ out'.res.ok
                 /\ ~NoRows(db') ]_vars

\* the store holds the task of a replaceAll, data.json has since been
\* written by another process with another document, and get_data has
\* answered with the store's document
ReadAfterMirrorEdited ==
    /\ out.op = "get_data"
    /\ out.res.ok
    /\ exists(fs, DataFile)
    /\ Content(fs, DataFile) = to_string_pretty(MiniA)
    /\ Tables(db) = Tables(StoreOf(MiniB))
    /\ Len(out.res.v.o["tasks"].a) = 1
    /\ out.res.v.o["tasks"].a[1].o["id"] = JStr("t2")

(***************************************************************************)
(* get_data over a store that cannot be read                               *)
(***************************************************************************)
\* another process writes data.json.bak
BackupEdited(text) ==
    /\ fs' = write_file(fs, BackupFile, text, Handles)
    /\ out' = [op |-> "edited"]
    /\ UNCHANGED << db, plat, sv >>
    /\ UNCHANGED syncVars
    /\ UNCHANGED hostVars

FallbackTexts == { to_string_pretty(MiniA), to_string(MiniB), << Tk("lbrace") >> }

NextFallback ==
    \/ \E failAt \in {0, 1} : \E readFails \in BOOLEAN : GetDataReading(failAt, readFails)
    \/ \E data \in {MiniB, InitialData} : ReplaceAll(data, 0)
    \/ \E text \in FallbackTexts : MirrorEdited(text)
    \/ \E text \in FallbackTexts : BackupEdited(text)

\* get_data calls, some over a store whose read fails, with both files
\* holding a document or anything else
SpecFallback == Init /\ [][NextFallback]_vars

\* the document that a file gives: what it parses to, with the keys that
\* read_json_with_retries adds
FileValue(dir, file) == normalize_sync_value(parse_json_relaxed(Content(dir, file)).x)
SettingsOf(value) == unwrap_or(as_object(get(value, "settings")), EmptyMap)

SettingsIsOneRow ==
    /\ Len(db.settings) <= 1
    /\ \A i \in 1..Len(db.settings) : db.settings[i].id = SqlInt(1)
    /\ (out.op = "replaceAll" /\ out.ok) =>
          /\ Len(db.settings) = 1
          /\ db.settings[1].data =
                SqlText(IF "settings" \in DOMAIN out.data.o
                        THEN to_string(out.data.o["settings"])
                        ELSE << Tk("lbrace"), Tk("rbrace") >>)

\* a document without a settings key has replaced one with settings
ReplacedWithoutSettings ==
    /\ out.op = "replaceAll" /\ out.ok
    /\ "settings" \notin DOMAIN out.data.o
    /\ Len(db.sections) = 1
    /\ Len(db.settings) = 1
    /\ db.settings[1].data = SqlText(<< Tk("lbrace"), Tk("rbrace") >>)
    /\ exists(fs, BackupFile)
    /\ Content(fs, BackupFile) = to_string_pretty(MiniA)

(***************************************************************************)
(* Requests that name no backend or no directory                           *)
(***************************************************************************)
BackendNames == Backends \cup {"ftp", "", " file ", "File"}

NextRequests ==
    \/ \E sync_path \in RawPaths : \E avail \in BOOLEAN : SetSyncPath(sync_path, avail)
    \/ \E backend \in BackendNames : \E avail \in BOOLEAN : SetSyncBackend(backend, avail)

\* set_sync_path and set_sync_backend requests, valid and invalid
SpecRequests == InitPath /\ [][NextRequests]_vars

\* the path is empty, or names a symlink or an entry that is no directory
InvalidTarget(raw) ==
    With(normalize_sync_dir(Trim(raw)), LAMBDA path :
        \/ path = ""
        \/ /\ EntryOf(path) \in Paths
           /\ tree[EntryOf(path)].kind \in {"symlink", "file"})

\* the name, blanks around it aside, is none of off, file, webdav, cloud
InvalidBackend(raw) ==
    \A name \in {"off", "file", "webdav", "cloud"} :
        raw \notin {name, " " \o name \o " "}

\* C33: a set_sync_backend with a name other than off, file, webdav, cloud,
\* and a set_sync_path with an empty path, a symlink or an existing entry
\* that is no directory, return an error, and config.toml, secrets.toml, the
\* secret store and the directories are after the call what they were before.
InvalidRequestIsRefused ==
    [][ /\ (out'.op = "set_sync_backend" /\ InvalidBackend(out'.backend))
            => (~out'.res.ok /\ conf' = conf /\ keyring' = keyring /\ tree' = tree)
        /\ (out'.op = "set_sync_path" /\ InvalidTarget(out'.path))
            => (~out'.res.ok /\ conf' = conf /\ keyring' = keyring /\ tree' = tree)
      ]_vars

\* the same, for paths that do not end in a separator
InvalidRequestIsRefusedUnlessSeparator ==
    [][ /\ (out'.op = "set_sync_backend" /\ InvalidBackend(out'.backend))
            => (~out'.res.ok /\ conf' = conf /\ keyring' = keyring /\ tree' = tree)
        /\ (out'.op = "set_sync_path" /\ InvalidTarget(out'.path)
              /\ ~EndsInSeparator(out'.path))
            => (~out'.res.ok /\ conf' = conf /\ keyring' = keyring /\ tree' = tree)
      ]_vars

(***************************************************************************)
(* Calendar subscriptions                                                  *)
(***************************************************************************)
\* A text a request carries is a sequence of pieces: a blank, a scheme, or
\* the rest of the text.
Blank == " "
Schemes == {"https://", "http://", "webcal://"}

RECURSIVE trim_start(_)
trim_start(text) ==
    IF Len(text) > 0 /\ Head(text) = Blank THEN trim_start(Tail(text)) ELSE text

RECURSIVE trim_end(_)
trim_end(text) ==
    IF Len(text) > 0 /\ text[Len(text)] = Blank
    THEN trim_end(SubSeq(text, 1, Len(text) - 1)) ELSE text

trim(text) == trim_end(trim_start(text))

\* the String of the pieces
RECURSIVE text_of(_)
text_of(text) == IF Len(text) = 0 THEN "" ELSE Head(text) \o text_of(Tail(text))

\* is_valid_calendar_url: the trimmed text is not empty and starts with one
\* of the three schemes
is_valid_calendar_url(raw) ==
    With(trim(raw), LAMBDA trimmed :
        IF Len(trimmed) = 0 THEN FALSE ELSE Head(trimmed) \in Schemes)

\* (every subscription is kept)
is_any_calendar_url(raw) == TRUE

\* the closure of `.map`: url and name trimmed, an empty name is "Calendar"
sanitize_calendar(c) ==
    [ id |-> c.id,
      name |-> IF Len(trim(c.name)) = 0 THEN << "Calendar" >> ELSE trim(c.name),
      url |-> trim(c.url),
      enabled |-> c.enabled ]

\* `calendars.into_iter().filter(..).map(..).collect()`
sanitized_calendars(calendars) ==
    With(SelectSeq(calendars, LAMBDA c : is_valid_calendar_url(c.url)), LAMBDA kept :
        [i \in 1..Len(kept) |-> sanitize_calendar(kept[i])])

\* serde_json::to_string of one ExternalCalendarSubscription: the fields in
\* the order of the struct
calendar_to_string(c) ==
    "{\"id\":\"" \o c.id \o "\",\"name\":\"" \o text_of(c.name)
        \o "\",\"url\":\"" \o text_of(c.url)
        \o "\",\"enabled\":" \o (IF c.enabled THEN "true" ELSE "false") \o "}"

RECURSIVE calendars_joined(_)
calendars_joined(cs) ==
    IF Len(cs) = 0 THEN ""
    ELSE IF Len(cs) = 1 THEN calendar_to_string(cs[1])
    ELSE calendar_to_string(cs[1]) \o "," \o calendars_joined(Tail(cs))

calendars_to_string(cs) == "[" \o calendars_joined(cs) \o "]"

\* set_external_calendars(calendars)
SetExternalCalendars(calendars, avail) ==
    /\ \E c \in {read_config(conf, keyring, avail)} :
          /\ conf' = write_config_files(
                         [c.config EXCEPT !["external_calendars"] =
                             Some(calendars_to_string(sanitized_calendars(calendars)))])
          /\ keyring' = c.kr
          /\ out' = [op |-> "set_external_calendars", calendars |-> calendars,
                     res |-> Ok(TRUE)]
    /\ UNCHANGED << db, fs, plat, sv, tree, opn, lay, rec >>
    /\ UNCHANGED syncVars

CalendarUrls ==
    { << Blank >>, << "https://", "a" >>, << Blank, "http://", "b", Blank >>,
      << "webcal://", "c" >>, << "ftp://", "d" >> }
CalendarNames == { << >>, << Blank, "Work" >> }
Subscriptions ==
    { [id |-> "c1", name |-> n, url |-> u, enabled |-> TRUE] :
        n \in CalendarNames, u \in CalendarUrls }
CalendarRequests ==
    { << >> } \cup { << a >> : a \in Subscriptions }
        \cup { << a, b >> : a \in Subscriptions, b \in Subscriptions }

NextCalendars ==
    \/ \E calendars \in CalendarRequests, avail \in BOOLEAN :
          SetExternalCalendars(calendars, avail)
    \/ \E avail \in BOOLEAN : GetSyncBackend(avail)

SpecCalendars == InitPath /\ [][NextCalendars]_vars

HasInvalidUrl(calendars) ==
    \E i \in 1..Len(calendars) :
        \/ Len(trim(calendars[i].url)) = 0
        \/ Head(trim(calendars[i].url)) \notin Schemes

\* C34: a set_external_calendars request with a subscription whose URL is
\* empty or starts with none of https://, http://, webcal:// returns an
\* error, and the config files and the secret store stay as they were.
InvalidCalendarIsRefused ==
    [][(out'.op = "set_external_calendars" /\ HasInvalidUrl(out'.calendars))
       => (~out'.res.ok /\ conf' = conf /\ keyring' = keyring)]_vars

\* what the command does with such a request: the subscriptions with a valid
\* URL are stored, the others are left out, and the answer is Ok(true)
InvalidCalendarIsLeftOut ==
    [][out'.op = "set_external_calendars"
       => /\ out'.res = Ok(TRUE)
          /\ conf'.secrets.k = "some"
          /\ conf'.secrets.x["external_calendars"] =
                Raw("dq", calendars_to_string(
                    With(SelectSeq(out'.calendars, LAMBDA c : ~HasInvalidUrl(<< c >>)),
                         LAMBDA kept :
                             [i \in 1..Len(kept) |-> sanitize_calendar(kept[i])])))]_vars

(***************************************************************************)
(* A migration whose calls of the secret store fail one by one             *)
(***************************************************************************)
\* migrate_legacy_secrets when set_keyring_secret succeeds for the keys of
\* `accepts` and fails for the others
RECURSIVE MigrateEach(_, _, _)
MigrateEach(st, keys, accepts) ==
    IF Len(keys) = 0 THEN st
    ELSE With(MigrateKey(st, Head(keys), Head(keys) \in accepts), LAMBDA st1 :
             MigrateEach(st1, Tail(keys), accepts))

\* read_config, as the commands start with it; `let _ = write_config_files`
ReadConfig(accepts) ==
    /\ \E st \in {MigrateEach([config |-> PlainConfig(conf), kr |-> keyring,
                               migrated |-> FALSE], KeyringKeys, accepts)} :
          /\ conf' = IF st.migrated THEN write_config_files(st.config) ELSE conf
          /\ keyring' = st.kr
          /\ out' = [op |-> "read_config", accepts |-> accepts,
                     found |-> [plain |-> PlainConfig(conf), kr |-> keyring],
                     res |-> Ok(st.config)]
    /\ UNCHANGED << db, fs, plat, sv, tree, opn, lay, rec >>
    /\ UNCHANGED syncVars

NextMigration ==
    \/ \E accepts \in SUBSET Credentials : ReadConfig(accepts)
    \/ \E avail \in BOOLEAN : GetWebdavConfig(avail)
    \/ \E avail \in BOOLEAN : GetCloudConfig(avail)
    \/ \E avail \in BOOLEAN : GetAiKey(avail)

SpecMigration == InitSecrets /\ [][NextMigration]_vars

\* what set_keyring_secret leaves in the entry for a value
StoredFor(value) == IF Trim(value) # "" THEN Some(Trim(value)) ELSE None

\* the step is a read_config in which the move of `key` was tried and failed
MoveFailed(key) ==
    /\ out'.op = "read_config"
    /\ PlainConfig(conf)[key].k = "some"
    /\ key \notin out'.accepts

\* the step is a read_config in which no tried move succeeded
NoMoveSucceeded ==
    /\ out'.op = "read_config"
    /\ \A key \in Credentials : PlainConfig(conf)[key].k = "some" => key \notin out'.accepts

\* the files lose a value only to the secret store, and a failed move leaves
\* the value in the files, in the returned configuration, and the entry as
\* it was
PlaintextKeptUntilStored ==
    \A key \in Credentials :
        /\ (PlainConfig(conf)[key].k = "some" /\ PlainConfig(conf')[key] # PlainConfig(conf)[key])
              => /\ PlainConfig(conf')[key] = None
                 /\ keyring'[key] = StoredFor(PlainConfig(conf)[key].x)
        /\ MoveFailed(key)
              => /\ PlainConfig(conf')[key] = PlainConfig(conf)[key]
                 /\ out'.res.v[key] = PlainConfig(conf)[key]
                 /\ keyring'[key] = keyring[key]

NothingMovedNothingWritten ==
    /\ out.op = "read_config"
    /\ out.accepts = {}
    /\ out.found.plain["webdav_password"] = Some("pw1")
    /\ out.found.kr = NoSecrets
    /\ keyring = NoSecrets
    /\ conf.config.k = "some"
    /\ conf.config.x["webdav_password"] = Raw("dq", "pw1")

(***************************************************************************)
(* Credential reads while the secret store does not answer                 *)
(***************************************************************************)
\* what a read that falls back to the files reports for the command
PlaintextAnswer(op, plain) ==
    CASE op = "get_webdav_config" -> Ok([hasPassword |-> plain["webdav_password"].k = "some"])
      [] op = "get_cloud_config" ->
            Ok([token |-> unwrap_or(plain["cloud_token"], "")])
      [] op = "get_ai_key" -> Ok(plain["ai_key_openai"])

\* C36: when the secret store does not answer, get_ai_key, get_webdav_config
\* and get_cloud_config succeed and report the value of the plaintext files.
CredentialReadDegrades ==
    (out.op \in {"get_ai_key", "get_webdav_config", "get_cloud_config"} /\ ~out.found.avail)
        => /\ out.res.ok
           /\ out.res = PlaintextAnswer(out.op, out.found.plain)

\* get_ai_key does so; get_webdav_config and get_cloud_config return the
\* error of the secret store, and all three leave files and entries alone
OnlyAiKeyReadDegrades ==
    (out.op \in {"get_ai_key", "get_webdav_config", "get_cloud_config"} /\ ~out.found.avail)
        => /\ out.op = "get_ai_key" => out.res = PlaintextAnswer(out.op, out.found.plain)
           /\ out.op # "get_ai_key" => out.res = Err("keyring")
           /\ PlainConfig(conf) = out.found.plain
           /\ keyring = out.found.kr

(***************************************************************************)
(* set_ai_key and get_ai_key                                               *)
(***************************************************************************)
\* the provider names that have a secret store entry in the model
Providers == {"openai"}

\* `value.and_then(|v| ..)`: the trimmed value, None when it is blank
next_value(value) ==
    IF value.k = "some" /\ Trim(value.x) # "" THEN Some(Trim(value.x)) ELSE None

\* set_ai_key(provider, value): the secret store answers the command's own
\* set_keyring_secret or not (availSet), and the calls of its read_config or
\* not (availRead)
SetAiKey(provider, value, availSet, availRead) ==
    /\ IF provider \notin Providers
       THEN /\ out' = [op |-> "set_ai_key", provider |-> provider, value |-> value,
                       res |-> Ok(TRUE)]
            /\ UNCHANGED << conf, keyring >>
       ELSE \E r \in {set_keyring_secret(keyring, "ai_key_openai", next_value(value),
                                         availSet)} :
            \E c \in {read_config(conf, r.kr, availRead)} :
               /\ conf' = write_config_files(
                              [c.config EXCEPT !["ai_key_openai"] =
                                  IF r.ok THEN None ELSE next_value(value)])
               /\ keyring' = c.kr
               /\ out' = [op |-> "set_ai_key", provider |-> provider, value |-> value,
                          res |-> Ok(TRUE)]
    /\ UNCHANGED << db, fs, plat, sv, tree, opn, lay, rec >>
    /\ UNCHANGED syncVars

AiKeyValues == {None, Some("k1"), Some(" k2 "), Some("  ")}

NextAiKey ==
    \/ \E provider \in Providers \cup {"mistral"}, value \in AiKeyValues,
          availSet \in BOOLEAN, availRead \in BOOLEAN :
          SetAiKey(provider, value, availSet, availRead)
    \/ \E avail \in BOOLEAN : GetAiKey(avail)

SpecAiKey == InitPath /\ [][NextAiKey]_vars

\* C37: in every sequence of set_ai_key and get_ai_key calls, a get_ai_key
\* that follows a set_ai_key(p, v) which returned Ok, and that finds the
\* secret store answering, returns the trimmed v, or nothing when v is
\* absent or blank.
GetAfterSetGivesValue ==
    [][(/\ out.op = "set_ai_key"
        /\ out.provider \in Providers
        /\ out.res.ok
        /\ out'.op = "get_ai_key"
        /\ out'.found.avail)
       => out'.res = Ok(next_value(out.value))]_vars

\* what holds: the get returns the value that was set when the secret store
\* took it and the files held no key before, and the plaintext of the files
\* when it did not and held no key before
GetAfterSetOverNoOlderValue ==
    [][(/\ out'.op = "set_ai_key"
        /\ out'.provider \in Providers
        /\ PlainConfig(conf)["ai_key_openai"] = None
        /\ keyring["ai_key_openai"] = None)
       => \A avail \in BOOLEAN :
             \/ ~avail /\ PlainConfig(conf')["ai_key_openai"] = None
             \/ With(read_config(conf', keyring', avail), LAMBDA c :
                    With(get_keyring_secret(c.kr, "ai_key_openai", avail), LAMBDA secret :
                        IF secret.ok /\ secret.v.k = "some" THEN secret.v
                        ELSE c.config["ai_key_openai"])) = next_value(out'.value)]_vars

(***************************************************************************)
(* The text of config.toml and secrets.toml                                *)
(***************************************************************************)
\* Here a value and a file are texts: sequences of pieces, a piece being one
\* character, a key name or the words of a header.
Quote == "\""
Apostrophe == "'"
Backslash == "\\"
LineFeed == "\n"

\* str::replace: every match, from the left, without overlap
RECURSIVE replace(_, _, _)
replace(text, from, to) ==
    IF Len(text) < Len(from) THEN text
    ELSE IF SubSeq(text, 1, Len(from)) = from
    THEN to \o replace(SubSeq(text, Len(from) + 1, Len(text)), from, to)
    ELSE << Head(text) >> \o replace(Tail(text), from, to)

\* serialize_toml_string_value on a text: backslashes, then quotes, escaped
serialize_toml_text(value) ==
    << Quote >>
        \o replace(replace(value, << Backslash >>, << Backslash, Backslash >>),
                   << Quote >>, << Backslash, Quote >>)
        \o << Quote >>

\* parse_toml_string_value on a text
parse_toml_text(raw) ==
    With(trim(raw), LAMBDA trimmed :
        IF Len(trimmed) = 0 THEN None
        ELSE IF Len(trimmed) >= 2 /\ Head(trimmed) = Quote /\ trimmed[Len(trimmed)] = Quote
        THEN Some(replace(replace(SubSeq(trimmed, 2, Len(trimmed) - 1),
                                  << Backslash, Quote >>, << Quote >>),
                          << Backslash, Backslash >>, << Backslash >>))
        ELSE IF /\ Len(trimmed) >= 2
                /\ Head(trimmed) = Apostrophe
                /\ trimmed[Len(trimmed)] = Apostrophe
        THEN Some(SubSeq(trimmed, 2, Len(trimmed) - 1))
        ELSE None)

\* the fields in the order of write_config_toml_with_header
KeyLines ==
    << "sync_path", "sync_backend", "webdav_password", "cloud_token",
       "external_calendars", "ai_key_openai" >>

ConfigHeader == << "#", Blank, "Mindwtr desktop config" >>
SecretsHeader == << "#", Blank, "Mindwtr desktop secrets" >>

\* write_config_toml_with_header: the header, `key = "value"` for every
\* field that has a value, joined with line feeds, and a last line feed
RECURSIVE config_lines(_, _)
config_lines(config, keys) ==
    IF Len(keys) = 0 THEN << >>
    ELSE (IF config[Head(keys)].k = "some"
          THEN << LineFeed, Head(keys), Blank, "=", Blank >>
                   \o serialize_toml_text(config[Head(keys)].x)
          ELSE << >>)
         \o config_lines(config, Tail(keys))

write_config_toml_with_header(config, header) ==
    header \o config_lines(config, KeyLines) \o << LineFeed >>

\* str::lines
RECURSIVE lines(_, _)
lines(content, cur) ==
    IF Len(content) = 0 THEN (IF Len(cur) = 0 THEN << >> ELSE << cur >>)
    ELSE IF Head(content) = LineFeed THEN << cur >> \o lines(Tail(content), << >>)
    ELSE lines(Tail(content), Append(cur, Head(content)))

\* split_once('='): the place of the first `=`, 0 when there is none
RECURSIVE find(_, _, _)
find(text, piece, i) ==
    IF i > Len(text) THEN 0 ELSE IF text[i] = piece THEN i ELSE find(text, piece, i + 1)

\* the loop body of read_config_toml for one line
read_config_line(config, untrimmed) ==
    With(trim(untrimmed), LAMBDA line :
        IF Len(line) = 0 \/ Head(line) = "#" THEN config
        ELSE With(find(line, "=", 1), LAMBDA at :
            IF at = 0 THEN config
            ELSE With(trim(SubSeq(line, 1, at - 1)), LAMBDA key :
                IF Len(key) = 1 /\ key[1] \in ConfigKeys
                THEN [config EXCEPT ![key[1]] =
                         parse_toml_text(trim(SubSeq(line, at + 1, Len(line))))]
                ELSE config)))

RECURSIVE read_config_lines(_, _)
read_config_lines(config, ls) ==
    IF Len(ls) = 0 THEN config
    ELSE With(read_config_line(config, Head(ls)), LAMBDA c :
             read_config_lines(c, Tail(ls)))

\* read_config_toml over the text of a file, None a file that is not there
read_config_text(file) ==
    IF file.k = "none" THEN DefaultConfig
    ELSE read_config_lines(DefaultConfig, lines(file.x, << >>))

\* write_config_files over texts
write_config_texts(config) ==
    With(split_config_for_secrets(config), LAMBDA parts :
        [ config |-> Some(write_config_toml_with_header(parts.public, ConfigHeader)),
          secrets |-> IF config_has_values(parts.secrets)
                      THEN Some(write_config_toml_with_header(parts.secrets, SecretsHeader))
                      ELSE None ])

\* the start of read_config over texts
read_config_texts(files) ==
    With(read_config_text(files.config), LAMBDA base :
        IF files.secrets.k = "some"
        THEN merge_config(base, read_config_text(files.secrets)) ELSE base)

\* write_config_files(config), which returned Ok
WriteConfigFiles(config) ==
    /\ out' = [op |-> "write_config_files", config |-> config,
               files |-> write_config_texts(config)]
    /\ UNCHANGED << db, fs, plat, sv, conf, keyring, tree, opn, lay, rec >>
    /\ UNCHANGED syncVars

\* read_config_toml of both files and merge_config, after a write
ReadConfigFiles ==
    /\ out.op = "write_config_files"
    /\ out' = [op |-> "read_config_files", config |-> out.config, files |-> out.files,
               res |-> read_config_texts(out.files)]
    /\ UNCHANGED << db, fs, plat, sv, conf, keyring, tree, opn, lay, rec >>
    /\ UNCHANGED syncVars

MaxValueLen == 2
ValuePieces == {"x", Blank, Quote, Backslash, LineFeed}
ValueTexts ==
    UNION {[1..n -> ValuePieces] : n \in 0..MaxValueLen}
        \cup {<< LineFeed, "cloud_token", "=", Apostrophe, "x", Apostrophe, LineFeed >>}

WrittenConfigs ==
    { [k \in ConfigKeys |->
          CASE k = "sync_path" -> p
            [] k = "cloud_token" -> t
            [] OTHER -> None] :
        p \in {None} \cup {Some(v) : v \in ValueTexts},
        t \in {None} \cup {Some(v) : v \in ValueTexts} }

NextConfigTexts ==
    \/ \E config \in WrittenConfigs : WriteConfigFiles(config)
    \/ ReadConfigFiles

SpecConfigTexts == Init /\ [][NextConfigTexts]_vars

\* the file has a line whose key is `key`
HasLineFor(file, key) ==
    /\ file.k = "some"
    /\ \E i \in 1..Len(lines(file.x, << >>)) :
          With(trim(lines(file.x, << >>)[i]), LAMBDA line :
              /\ Len(line) > 0
              /\ Head(line) # "#"
              /\ find(line, "=", 1) > 0
              /\ trim(SubSeq(line, 1, find(line, "=", 1) - 1)) = << key >>)

HasLineFeed(config) ==
    \E k \in ConfigKeys :
        config[k].k = "some" /\ \E i \in 1..Len(config[k].x) : config[k].x[i] = LineFeed

WrittenFilesAreSplit ==
    /\ \A k \in SecretFileKeys : ~HasLineFor(out.files.config, k)
    /\ out.files.secrets.k = "some"
          <=> \E k \in SecretFileKeys : out.config[k].k = "some"

\* C38: after every write_config_files that succeeded, config.toml has no
\* line for a secret field, secrets.toml exists exactly when a secret field
\* has a value, and reading config.toml and overlaying secrets.toml gives
\* the configuration that was written.
WrittenConfigReadsBack ==
    /\ out.op \in {"write_config_files", "read_config_files"} => WrittenFilesAreSplit
    /\ out.op = "read_config_files" => out.res = out.config

\* the same for configurations whose values hold no line feed
WrittenOneLineConfigReadsBack ==
    (out.op \in {"write_config_files", "read_config_files"} /\ ~HasLineFeed(out.config))
        => /\ WrittenFilesAreSplit
           /\ out.op = "read_config_files" => out.res = out.config

(***************************************************************************)
(* Recording commands                                                      *)
(***************************************************************************)
\* start_audio_recording()
StartAudioRecording(answer) ==
    /\ answer = "timeout" => rec.late < MaxLate
    /\ \E r \in {start_audio_recording(rec, answer)} :
          /\ rec' = r.rec
          /\ out' = [op |-> "start_audio_recording", answer |-> answer, res |-> r.res]
    /\ UNCHANGED << db, fs, plat, sv, conf, keyring, tree, opn, lay >>
    /\ UNCHANGED syncVars

\* the input stream's callback appends to the buffer
CaptureSamples ==
    /\ rec.handle.k = "some"
    /\ rec.handle.x.samples < MaxSamples
    /\ rec' = [rec EXCEPT !.handle.x.samples = @ + 1]
    /\ UNCHANGED << db, fs, plat, sv, out, conf, keyring, tree, opn, lay >>
    /\ UNCHANGED syncVars

\* the thread of a start that gave up: its stop_rx.recv() returns at once,
\* the sender being dropped, and the thread ends
LateThreadEnds ==
    /\ rec.late > 0
    /\ rec' = [rec EXCEPT !.late = @ - 1]
    /\ UNCHANGED << db, fs, plat, sv, out, conf, keyring, tree, opn, lay >>
    /\ UNCHANGED syncVars

\* stop_audio_recording()
StopAudioRecording(fault) ==
    /\ \E r \in {stop_audio_recording(rec, fault)} :
          /\ rec' = r.rec
          /\ out' = [op |-> "stop_audio_recording", fault |-> fault, res |-> r.res]
    /\ UNCHANGED << db, fs, plat, sv, conf, keyring, tree, opn, lay >>
    /\ UNCHANGED syncVars

NextRecorder ==
    \/ \E answer \in Handshakes : StartAudioRecording(answer)
    \/ CaptureSamples
    \/ LateThreadEnds
    \/ \E fault \in StopFaults : StopAudioRecording(fault)

SpecRecorder == Init /\ [][NextRecorder]_vars

\* C39: a start_audio_recording while a recording is active returns
\* `Recording already in progress` and leaves the recording as it is; a
\* start whose handshake fails or times out returns an error and leaves no
\* recording; a stop_audio_recording with no recording returns `No active
\* recording`; every other stop leaves no recording, also when it returns an
\* error.
OneRecordingAtMost ==
    [][/\ \A answer \in Handshakes :
             StartAudioRecording(answer)
                => IF rec.handle.k = "some"
                   THEN /\ out'.res = Err("Recording already in progress")
                        /\ rec' = rec
                   ELSE IF answer = "ok"
                   THEN out'.res.ok /\ rec'.handle = Some([samples |-> 0])
                   ELSE ~out'.res.ok /\ rec'.handle = None
       /\ \A fault \in StopFaults :
             StopAudioRecording(fault)
                => IF rec.handle.k = "none"
                   THEN /\ out'.res = Err("No active recording")
                        /\ rec' = rec
                   ELSE /\ rec'.handle = None
                        /\ out'.res # Err("No active recording")
       /\ (CaptureSamples \/ LateThreadEnds) => rec'.handle.k = rec.handle.k]_vars

\* a second start was refused while the recording had samples in its buffer
SecondStartRefused ==
    /\ out.op = "start_audio_recording"
    /\ out.res = Err("Recording already in progress")
    /\ rec.handle = Some([samples |-> MaxSamples])

\* a stop failed while writing the file and the recording is gone
FailedStopCleared ==
    /\ out.op = "stop_audio_recording"
    /\ out.res = Err("write_sample")
    /\ rec.handle = None
    /\ rec.wav = "partial"

====
